---- MODULE Spec2Model ----
(***************************************************************************)
(* A model of the patch engine of agent-loop: the token/range edit         *)
(* resolver (applyEditsToText), the self-verifying diff synthesizer        *)
(* (generateUnifiedDiffForFile, planToUnifiedDiffs) and the raw patch      *)
(* entry point (write_patch with parseDiffPatch and applyPatchManually),   *)
(* the instruction compiler (generate_patch), the agent loop               *)
(* (runCodingAgent) and the model call with retries (makeAICall).          *)
(*                                                                         *)
(* A text is a sequence of characters.  A character is a one-element       *)
(* string token; NL is the newline character.                              *)
(***************************************************************************)
EXTENDS Integers, Sequences, FiniteSets, TLC

VARIABLES
  \* applyEditsToText: its arguments, its locals and where it stands
  original, edits, concrete, sorted, result, epc, eerr,
  \* the file system: path -> [kind, text]; fs0 is the file system before
  \* the call and written the fs.writeFile calls that succeeded during it
  fs, fs0, written,
  \* write_patch: its argument (sub is the submission the text patch was
  \* written from), its locals, where it stands and what it returned
  sub, patch, unescapedPatch, parsedPatches, blocks, wi, replaced, wpc, wresult,
  \* planToUnifiedDiffs: its plan, the state of the callback of each change
  \* (pc, the text read, the edited text, the diff), the state of the
  \* promise it returns and the list it resolves to
  plan, dwork, dpc, dresult,
  \* generate_patch: its argument, where it stands, the index of the
  \* instruction it compiles next, its locals patches and applied, what it
  \* returned, and the files it has read
  instructions, gpc, gi, gpatches, gapplied, gresult, greads,
  \* runCodingAgent: its options, whether the goal counts as complex, the
  \* loop counter, the counters of the caps, the transcript, where it
  \* stands, what it returned, the responses the model gave and the tools
  \* that were run (with the step they ran at)
  maxSteps, maxWrites, maxCmds, isComplexTask, step, writes, cmds, transcript, apc,
  aresult, responses, calls,
  \* makeAICall: its option maxRetries, the provider given or detected in
  \* the environment ("" for none), the loop counter, where it stands, the
  \* outcomes of the attempts made, the waits before the retries and what it
  \* returned or threw
  maxRetries, provider, attempt, cpc, tries, waits, cresult

editVars == <<original, edits, concrete, sorted, result, epc, eerr>>

fsVars == <<fs, fs0, written>>

writeVars == <<sub, patch, unescapedPatch, parsedPatches, blocks, wi, replaced, wpc, wresult>>

diffVars == <<plan, dwork, dpc, dresult>>

genVars == <<instructions, gpc, gi, gpatches, gapplied, gresult, greads>>

callVars == <<maxRetries, provider, attempt, cpc, tries, waits, cresult>>

agentVars ==
  <<maxSteps, maxWrites, maxCmds, isComplexTask, step, writes, cmds, transcript, apc,
    aresult, responses, calls, callVars>>

vars == <<editVars, fsVars, writeVars, diffVars, genVars, agentVars>>

\* ------------------------------------------------------------------------
\* Bounds of the model
\* ------------------------------------------------------------------------

\* the largest number of edits in one applyEditsToText call
MaxEdits == 2

\* ------------------------------------------------------------------------
\* JavaScript string primitives on texts
\* ------------------------------------------------------------------------

NL == "\n"

Min(a, b) == IF a < b THEN a ELSE b

Max(a, b) == IF a > b THEN a ELSE b

\* String.prototype.slice(from, to) for 0 <= from, to (0-based, to exclusive,
\* both clamped to the length)
Slice(s, from, to) ==
  LET f == Min(from, Len(s))
      t == Min(to, Len(s))
  IN  IF f >= t THEN << >> ELSE SubSeq(s, f + 1, t)

\* String.prototype.slice(from)
SliceFrom(s, from) == Slice(s, from, Len(s))

\* the needle stands in the haystack at 0-based offset i
MatchesAt(haystack, needle, i) ==
  /\ i + Len(needle) <= Len(haystack)
  /\ \A k \in 1..Len(needle) : haystack[i + k] = needle[k]

\* String.prototype.indexOf(needle, from): -1 when there is no match
IndexOf(haystack, needle, from) ==
  LET hits == {i \in Min(from, Len(haystack))..Len(haystack) : MatchesAt(haystack, needle, i)}
  IN  IF hits = {} THEN -1 ELSE CHOOSE i \in hits : \A j \in hits : i <= j

\* ------------------------------------------------------------------------
\* applyEditsToText (tools/project-analysis.ts)
\* ------------------------------------------------------------------------

RECURSIVE FindNthFromNextChar(_, _, _, _, _)
\* a scan that resumes one character after the start of the previous match
FindNthFromNextChar(haystack, needle, n, i, from) ==
  IF i >= n THEN -1
  ELSE LET idx == IndexOf(haystack, needle, from)
       IN  IF idx = -1 THEN -1
           ELSE IF i = n - 1 THEN idx
           ELSE FindNthFromNextChar(haystack, needle, n, i + 1, idx + 1)

RECURSIVE FindNthFrom(_, _, _, _, _)
\* the loop of findNthIndex: iteration i of n, scanning from offset from
FindNthFrom(haystack, needle, n, i, from) ==
  IF i >= n THEN -1
  ELSE LET idx == IndexOf(haystack, needle, from)
       IN  IF idx = -1 THEN -1
           ELSE IF i = n - 1 THEN idx
           ELSE FindNthFrom(haystack, needle, n, i + 1, idx + Len(needle))

findNthIndex(haystack, needle, n) ==
  IF n <= 0 THEN -1 ELSE FindNthFrom(haystack, needle, n, 0, 0)

\* the overlap test of a check that assumes a stands before b in the text
editsOverlapOneWay(a, b) == a.start <= b.start /\ b.start < a.end

editsOverlap(a, b) == Max(a.start, b.start) < Min(a.end, b.end)

\* An edit of a FileChangePlan.  Every record carries every field; a kind
\* reads only its own.  hasOcc = FALSE is an omitted occurrence.
ReplaceRangeEdit(s, e, t) ==
  [kind |-> "replaceRange", start |-> s, end |-> e, text |-> t,
   find |-> << >>, hasOcc |-> FALSE, occurrence |-> 0]

TokenEdit(k, f, t, has, occ) ==
  [kind |-> k, start |-> 0, end |-> 0, text |-> t,
   find |-> f, hasOcc |-> has, occurrence |-> occ]

\* e.occurrence ?? 1
OccurrenceOf(e) == IF e.hasOcc THEN e.occurrence ELSE 1

\* a resolution that accepts a range ending past the text
ResolveEditNoUpperBound(text, e) ==
  IF e.kind = "replaceRange"
  THEN IF e.start < 0 \/ e.end < e.start
       THEN [ok |-> FALSE, err |-> "Invalid replaceRange"]
       ELSE [ok |-> TRUE, c |-> [start |-> e.start, end |-> e.end, text |-> e.text]]
  ELSE LET start == findNthIndex(text, e.find, OccurrenceOf(e))
       IN  IF start = -1
           THEN [ok |-> FALSE, err |-> "Token not found"]
           ELSE IF e.kind = "replace"
           THEN [ok |-> TRUE, c |-> [start |-> start, end |-> start + Len(e.find), text |-> e.text]]
           ELSE IF e.kind = "insertAfter"
           THEN [ok |-> TRUE, c |-> [start |-> start + Len(e.find), end |-> start + Len(e.find), text |-> e.text]]
           ELSE [ok |-> TRUE, c |-> [start |-> start, end |-> start + Len(e.find), text |-> << >>]]

\* one iteration of the resolution loop: the ConcreteEdit pushed, or the
\* error thrown
ResolveEdit(text, e) ==
  IF e.kind = "replaceRange"
  THEN IF e.start < 0 \/ e.end < e.start \/ e.end > Len(text)
       THEN [ok |-> FALSE, err |-> "Invalid replaceRange"]
       ELSE [ok |-> TRUE, c |-> [start |-> e.start, end |-> e.end, text |-> e.text]]
  ELSE LET start == findNthIndex(text, e.find, OccurrenceOf(e))
       IN  IF start = -1
           THEN [ok |-> FALSE, err |-> "Token not found"]
           ELSE IF e.kind = "replace"
           THEN [ok |-> TRUE, c |-> [start |-> start, end |-> start + Len(e.find), text |-> e.text]]
           ELSE IF e.kind = "insertAfter"
           THEN [ok |-> TRUE, c |-> [start |-> start + Len(e.find), end |-> start + Len(e.find), text |-> e.text]]
           ELSE [ok |-> TRUE, c |-> [start |-> start, end |-> start + Len(e.find), text |-> << >>]]

\* the nested overlap-detection loops over concrete
HasOverlap(cs) ==
  \E i \in 1..Len(cs) : \E j \in (i + 1)..Len(cs) :
    editsOverlap(cs[i], cs[j])

RECURSIVE InsertSorted(_, _)
\* c placed after every element that does not sort after it
InsertSorted(sortedSeq, c) ==
  IF sortedSeq = << >> THEN << c >>
  ELSE IF Head(sortedSeq).start >= c.start
       THEN << Head(sortedSeq) >> \o InsertSorted(Tail(sortedSeq), c)
       ELSE << c >> \o sortedSeq

RECURSIVE SortDescByStart(_)
\* [...concrete].sort((a, b) => b.start - a.start): descending by start, stable
SortDescByStart(cs) ==
  IF cs = << >> THEN << >>
  ELSE InsertSorted(SortDescByStart(SubSeq(cs, 1, Len(cs) - 1)), cs[Len(cs)])

\* result.slice(0, c.start) + c.text + result.slice(c.end)
SpliceOne(text, c) == Slice(text, 0, c.start) \o c.text \o SliceFrom(text, c.end)

\* the texts applyEditsToText is called on
EditTexts == {<<"a", "b", "a">>, <<"a", "a", "b">>, <<"b", "a", "a">>, <<"a", "a", "a", "a">>}

\* the edits a caller may put in a plan for a text: every range with bounds
\* in 0..length, ranges that end past the text or start before it, and token
\* edits on "a", "b" and "aa" (occurrence omitted, 0, 1 and 2)
EditUniverse(text) ==
  {ReplaceRangeEdit(s, e, <<"X">>) : s \in 0..Len(text), e \in 0..Len(text)}
    \cup {ReplaceRangeEdit(0, Len(text) + 1, <<"X">>), ReplaceRangeEdit(-1, 1, <<"X">>)}
    \cup {TokenEdit("replace", <<"a">>, <<"X">>, FALSE, 0),
          TokenEdit("replace", <<"b">>, <<"X">>, TRUE, 2),
          TokenEdit("insertAfter", <<"a">>, <<"Y">>, TRUE, 1),
          TokenEdit("insertAfter", <<"a">>, <<"Y">>, TRUE, 2),
          TokenEdit("delete", <<"a">>, << >>, TRUE, 2),
          TokenEdit("delete", <<"a">>, << >>, TRUE, 0),
          TokenEdit("replace", <<"a", "a">>, <<"X">>, TRUE, 2)}

\* the lists of at most n elements of S
SeqUpTo(S, n) == UNION {[1..k -> S] : k \in 0..n}

EditsIdle ==
  /\ original = << >> /\ edits = << >> /\ concrete = << >> /\ sorted = << >>
  /\ result = << >> /\ epc = "idle" /\ eerr = ""

\* a call applyEditsToText(original, edits)
EditsInit ==
  /\ original \in EditTexts
  /\ edits \in SeqUpTo(EditUniverse(original), MaxEdits)
  /\ concrete = << >> /\ sorted = << >> /\ result = << >>
  /\ epc = "resolve" /\ eerr = ""

\* for (const e of edits): one iteration, or the end of the loop
EResolve ==
  /\ epc = "resolve"
  /\ IF Len(concrete) < Len(edits)
     THEN LET r == ResolveEdit(original, edits[Len(concrete) + 1])
          IN  IF r.ok
              THEN /\ concrete' = Append(concrete, r.c)
                   /\ UNCHANGED <<epc, eerr>>
              ELSE /\ epc' = "thrown" /\ eerr' = r.err
                   /\ UNCHANGED concrete
     ELSE /\ epc' = "overlap"
          /\ UNCHANGED <<concrete, eerr>>
  /\ UNCHANGED <<original, edits, sorted, result, fsVars, writeVars, diffVars, genVars, agentVars>>

\* the overlap detection, then the sort and let result = original
ECheckOverlap ==
  /\ epc = "overlap"
  /\ IF HasOverlap(concrete)
     THEN /\ epc' = "thrown" /\ eerr' = "Overlapping edits"
          /\ UNCHANGED <<sorted, result>>
     ELSE /\ epc' = "splice" /\ sorted' = SortDescByStart(concrete)
          /\ result' = original
          /\ UNCHANGED eerr
  /\ UNCHANGED <<original, edits, concrete, fsVars, writeVars, diffVars, genVars, agentVars>>

\* for (const c of sorted): one splice
ESplice ==
  /\ epc = "splice" /\ sorted # << >>
  /\ result' = SpliceOne(result, Head(sorted))
  /\ sorted' = Tail(sorted)
  /\ UNCHANGED <<original, edits, concrete, epc, eerr, fsVars, writeVars, diffVars, genVars, agentVars>>

\* return result
EReturn ==
  /\ epc = "splice" /\ sorted = << >>
  /\ epc' = "returned"
  /\ UNCHANGED <<original, edits, concrete, sorted, result, eerr, fsVars, writeVars, diffVars, genVars, agentVars>>

NextEdits == EResolve \/ ECheckOverlap \/ ESplice \/ EReturn

\* ------------------------------------------------------------------------
\* Patch text (handlers/file-handlers.ts)
\*
\* A patch text is a sequence of lexemes: NL, the backslash BS, and words
\* that the code only reads as units ("--- ", "a/", "@@", a line's text
\* "L1", a number "3", the markers of the full-file format, ...).
\* ------------------------------------------------------------------------

BS == "\\"

TAB == "\t"

QUOTE == "\""

\* the n-th smallest number of the set P
NthOf(P, n) == CHOOSE k \in P : Cardinality({j \in P : j < k}) = n - 1

\* the number of backslashes that stand directly before position k
RunBefore(text, k) ==
  k - 1 - Max(0, IF \E j \in 1..(k - 1) : text[j] # BS
                 THEN CHOOSE j \in 1..(k - 1) : text[j] # BS /\ \A i \in (j + 1)..(k - 1) : text[i] = BS
                 ELSE 0)

\* the positions at which /\\c/g matches: a backslash followed by c that no
\* earlier match has consumed (only a match of two backslashes can consume
\* the backslash of the next one)
EscapeMatches(text, c) ==
  {k \in 1..(Len(text) - 1) :
     text[k] = BS /\ text[k + 1] = c /\ (c = BS => RunBefore(text, k) % 2 = 0)}

RECURSIVE Flatten(_)
\* the concatenation of the sequences of ss
Flatten(ss) ==
  IF Len(ss) = 0 THEN << >>
  ELSE IF Len(ss) = 1 THEN ss[1]
  ELSE Flatten(SubSeq(ss, 1, Len(ss) \div 2)) \o Flatten(SubSeq(ss, Len(ss) \div 2 + 1, Len(ss)))

\* what each position of text gives to the result: r where a match starts,
\* nothing for the lexeme a match ends with, the lexeme itself elsewhere
ReplaceAt(text, M, r) ==
  Flatten([k \in 1..Len(text) |->
             IF k \in M THEN << r >> ELSE IF (k - 1) \in M THEN << >> ELSE << text[k] >>])

\* text.replace(/\\c/g, r): every backslash followed by c becomes r, left to
\* right
ReplaceEscape(text, c, r) == ReplaceAt(text, EscapeMatches(text, c), r)

\* the four replace calls that open write_patch, in their order
Unescape(text) ==
  ReplaceEscape(ReplaceEscape(ReplaceEscape(ReplaceEscape(text, "n", NL), "t", TAB), QUOTE, QUOTE), BS, BS)

\* the pieces of text between the separators at the positions P, each
\* separator taking width lexemes up to its position
PiecesAt(text, P, width) ==
  [n \in 1..(Cardinality(P) + 1) |->
     SubSeq(text,
            IF n = 1 THEN 1 ELSE NthOf(P, n - 1) + 1,
            IF n = Cardinality(P) + 1 THEN Len(text)
            ELSE NthOf(P, n) - (IF width = 2 /\ NthOf(P, n) > 1 THEN 2 ELSE 1))]

\* the first position of text that holds NL
FirstNL(text) == CHOOSE i \in 1..Len(text) : text[i] = NL /\ \A j \in 1..(i - 1) : text[j] # NL

RECURSIVE SplitLines(_)
\* text.split("\n")
SplitLines(text) ==
  IF \A k \in 1..Len(text) : text[k] # NL THEN << text >>
  ELSE << SubSeq(text, 1, FirstNL(text) - 1) >> \o SplitLines(SubSeq(text, FirstNL(text) + 1, Len(text)))

RECURSIVE JoinLines(_)
\* lines.join("\n")
JoinLines(ls) ==
  IF ls = << >> THEN << >>
  ELSE IF Len(ls) = 1 THEN ls[1]
  ELSE ls[1] \o << NL >> \o JoinLines(Tail(ls))

\* the numbers a hunk header is written with
NumWords == {"0", "1", "2", "3", "4", "5", "6", "7", "8", "9"}

\* parseInt / unary plus on a number word
NatOf(w) ==
  CASE w = "0" -> 0 [] w = "1" -> 1 [] w = "2" -> 2 [] w = "3" -> 3 [] w = "4" -> 4
    [] w = "5" -> 5 [] w = "6" -> 6 [] w = "7" -> 7 [] w = "8" -> 8 [] w = "9" -> 9

\* the first character of a line: "+", "-", " ", "@", "" for the empty line
\* and "x" for any other character
FirstChar(line) ==
  IF line = << >> THEN ""
  ELSE CASE line[1] \in {"+", "+++ "} -> "+"
         [] line[1] \in {"-", "--- "} -> "-"
         [] line[1] = " " -> " "
         [] line[1] = "@@" -> "@"
         [] line[1] = BS -> BS
         [] OTHER -> "x"

\* line.startsWith(w) for a one-lexeme w
StartsWith(line, w) == line # << >> /\ line[1] = w

\* "-start" or "+start" with its optional ",count" at position p of a hunk
\* header.  The library reads (?:,(\d+))?; the hand parser ,?(\d*)
HeaderRange(line, p, sign, tolerant) ==
  IF ~(Len(line) >= p + 1 /\ line[p] = sign /\ line[p + 1] \in NumWords)
  THEN [ok |-> FALSE, start |-> 0, has |-> FALSE, count |-> 0, next |-> p]
  ELSE LET q == p + 2
           comma == Len(line) >= q /\ line[q] = ","
           digits == comma /\ Len(line) >= q + 1 /\ line[q + 1] \in NumWords
       IN  IF digits
           THEN [ok |-> TRUE, start |-> NatOf(line[p + 1]), has |-> TRUE,
                 count |-> NatOf(line[q + 1]), next |-> q + 2]
           ELSE [ok |-> TRUE, start |-> NatOf(line[p + 1]), has |-> FALSE, count |-> 0,
                 next |-> IF comma /\ tolerant THEN q + 1 ELSE q]

NoMatch ==
  [ok |-> FALSE, oldStart |-> 0, hasOld |-> FALSE, oldLines |-> 0,
   newStart |-> 0, hasNew |-> FALSE, newLines |-> 0]

\* the end of the header after its two ranges o and n: " @@"
MatchHeaderEnd(line, o, n) ==
  IF ~n.ok \/ ~(Len(line) >= n.next + 1 /\ line[n.next] = " " /\ line[n.next + 1] = "@@")
  THEN NoMatch
  ELSE [ok |-> TRUE, oldStart |-> o.start, hasOld |-> o.has, oldLines |-> o.count,
        newStart |-> n.start, hasNew |-> n.has, newLines |-> n.count]

\* the header after its first range o: " +c,d @@"
MatchHeaderNew(line, o, tolerant) ==
  IF ~o.ok \/ ~(Len(line) >= o.next /\ line[o.next] = " ") THEN NoMatch
  ELSE MatchHeaderEnd(line, o, HeaderRange(line, o.next + 1, "+", tolerant))

\* the match of a hunk header line, "@@ -a,b +c,d @@", at the start of line
MatchHeader(line, tolerant) ==
  IF ~(Len(line) >= 2 /\ line[1] = "@@" /\ line[2] = " ") THEN NoMatch
  ELSE MatchHeaderNew(line, HeaderRange(line, 3, "-", tolerant), tolerant)

\* line.substr(1) / line.substring(1)
LineContent(line) ==
  IF line = << >> THEN << >>
  ELSE IF line[1] = "--- " THEN << "-- " >> \o Tail(line)
  ELSE IF line[1] = "+++ " THEN << "++ " >> \o Tail(line)
  ELSE Tail(line)

\* ------------------------------------------------------------------------
\* parsePatch of the diff library (strict: it throws on a line it does not
\* know and on a hunk whose line counts disagree with its header)
\* ------------------------------------------------------------------------

\* /^(---|\+\+\+)\s/
IsFileHeader(line) == StartsWith(line, "--- ") \/ StartsWith(line, "+++ ")

\* /^(---|\+\+\+|@@)\s/: the line that ends the metadata of an index
EndsMetadata(line) ==
  IsFileHeader(line) \/ (Len(line) >= 2 /\ line[1] = "@@" /\ line[2] = " ")

RECURSIVE SkipMetadata(_, _)
SkipMetadata(ls, i) ==
  IF i > Len(ls) \/ EndsMetadata(ls[i]) THEN i ELSE SkipMetadata(ls, i + 1)

\* fileHeader[2].split("\t", 2)[0]: the name of a file header ends at the
\* first tab
HeaderName(rest) ==
  IF \E k \in 1..Len(rest) : rest[k] = TAB
  THEN SubSeq(rest, 1, (CHOOSE k \in 1..Len(rest) : rest[k] = TAB /\ \A j \in 1..(k - 1) : rest[j] # TAB) - 1)
  ELSE rest

\* an index without names or hunks
EmptyIndex == [oldFileName |-> << >>, newFileName |-> << >>, hunks |-> << >>]

\* parseFileHeader: the index with the name of the header at line at.i, if
\* any
FileHeaderLib(ls, at) ==
  IF at.i <= Len(ls) /\ IsFileHeader(ls[at.i])
  THEN [i |-> at.i + 1,
        index |-> IF ls[at.i][1] = "--- "
                  THEN [at.index EXCEPT !.oldFileName = HeaderName(Tail(ls[at.i]))]
                  ELSE [at.index EXCEPT !.newFileName = HeaderName(Tail(ls[at.i]))]]
  ELSE at

RECURSIVE HunkBodyLib(_, _, _, _, _, _, _)
\* the loop of parseHunk over the lines of a hunk
HunkBodyLib(ls, j, oldLines, newLines, removeCount, addCount, acc) ==
  IF j <= Len(ls) /\ (removeCount < oldLines \/ addCount < newLines \/ FirstChar(ls[j]) = BS)
  THEN LET operation == IF ls[j] = << >> /\ j # Len(ls) THEN " " ELSE FirstChar(ls[j])
       IN  IF operation \in {"+", "-", " ", BS}
           THEN HunkBodyLib(ls, j + 1, oldLines, newLines,
                            removeCount + (IF operation \in {"-", " "} THEN 1 ELSE 0),
                            addCount + (IF operation \in {"+", " "} THEN 1 ELSE 0),
                            Append(acc, ls[j]))
           ELSE [ok |-> FALSE]
  ELSE [ok |-> TRUE, i |-> j, removeCount |-> removeCount, addCount |-> addCount, lines |-> acc]

\* +chunkHeader[2] and +chunkHeader[4]: 1 for a count the header leaves out
\* (and for NaN)
CountLib(ok, has, count) == IF ok /\ has THEN count ELSE 1

\* "if (hunk.oldLines === 0) hunk.oldStart += 1", and the same for the new
\* side
StartLib(ok, start, count) == IF ok THEN start + (IF count = 0 THEN 1 ELSE 0) ELSE 0

\* "if (addCount === 0 && hunk.newLines === 1) hunk.newLines = 0", and the
\* same for the old side
FixCount(count, seen) == IF seen = 0 /\ count = 1 THEN 0 ELSE count

\* the end of parseHunk: the sanity check of the counts, and the hunk
HunkLib(h, oldLines, newLines, b) ==
  IF ~b.ok THEN [ok |-> FALSE]
  ELSE IF b.addCount # FixCount(newLines, b.addCount)
            \/ b.removeCount # FixCount(oldLines, b.removeCount)
  THEN [ok |-> FALSE]
  ELSE [ok |-> TRUE, i |-> b.i,
        hunk |-> [oldStart |-> StartLib(h.ok, h.oldStart, oldLines),
                  oldLines |-> FixCount(oldLines, b.removeCount),
                  newStart |-> StartLib(h.ok, h.newStart, newLines),
                  newLines |-> FixCount(newLines, b.addCount),
                  nan |-> ~h.ok, lines |-> b.lines]]

ParseHunkCounts(ls, i, h, oldLines, newLines) ==
  HunkLib(h, oldLines, newLines, HunkBodyLib(ls, i + 1, oldLines, newLines, 0, 0, << >>))

ParseHunkHeader(ls, i, h) ==
  ParseHunkCounts(ls, i, h, CountLib(h.ok, h.hasOld, h.oldLines), CountLib(h.ok, h.hasNew, h.newLines))

\* parseHunk at the header line i.  A header the pattern does not match
\* gives NaN start lines (nan) and counts of 1
ParseHunkLib(ls, i) == ParseHunkHeader(ls, i, MatchHeader(ls[i], FALSE))

RECURSIVE HunksLib(_, _, _)
RECURSIVE HunksAfter(_, _, _)
\* the hunk loop of parseIndex
HunksLib(ls, i, acc) ==
  IF i > Len(ls) \/ IsFileHeader(ls[i]) THEN [ok |-> TRUE, i |-> i, hunks |-> acc]
  ELSE IF StartsWith(ls[i], "@@") THEN HunksAfter(ls, acc, ParseHunkLib(ls, i))
  ELSE IF ls[i] # << >> THEN [ok |-> FALSE]
  ELSE HunksLib(ls, i + 1, acc)

\* index.hunks.push(parseHunk()), and the loop goes on after the hunk
HunksAfter(ls, acc, r) ==
  IF r.ok THEN HunksLib(ls, r.i, Append(acc, r.hunk)) ELSE [ok |-> FALSE]

\* the index read by parseIndex: its names h and its hunks hs
IndexLib(h, hs) ==
  IF ~hs.ok THEN [ok |-> FALSE]
  ELSE [ok |-> TRUE, i |-> hs.i, index |-> [h.index EXCEPT !.hunks = hs.hunks]]

ParseIndexHunks(ls, h) == IndexLib(h, HunksLib(ls, h.i, << >>))

\* parseIndex from line i: the metadata, the two file headers, the hunks
ParseIndexLib(ls, i) ==
  ParseIndexHunks(ls, FileHeaderLib(ls, FileHeaderLib(ls, [i |-> SkipMetadata(ls, i), index |-> EmptyIndex])))

RECURSIVE ParseAllLib(_, _, _)
RECURSIVE ParseAllAfter(_, _, _)
\* while (i < diffstr.length) parseIndex()
ParseAllLib(ls, i, list) ==
  IF i > Len(ls) THEN [ok |-> TRUE, list |-> list]
  ELSE ParseAllAfter(ls, list, ParseIndexLib(ls, i))

ParseAllAfter(ls, list, r) ==
  IF r.ok THEN ParseAllLib(ls, r.i, Append(list, r.index)) ELSE [ok |-> FALSE]

\* parsePatch(text): the list of patches, or ok = FALSE when it throws
parsePatch(text) == ParseAllLib(SplitLines(text), 1, << >>)

\* ------------------------------------------------------------------------
\* parseDiffPatch: parsePatch, and the hand parser when parsePatch throws
\* ------------------------------------------------------------------------

\* line.startsWith("--- a/") and line.startsWith("+++ b/")
StartsOldA(line) == Len(line) >= 2 /\ line[1] = "--- " /\ line[2] = "a/"

StartsNewB(line) == Len(line) >= 2 /\ line[1] = "+++ " /\ line[2] = "b/"

\* patches.push(currentPatch) of a patch being built (cur = << >>: null)
Flush(patches, cur) == IF cur = << >> THEN patches ELSE Append(patches, cur[1])

\* currentPatch.hunks.push(h) / currentHunk.lines.push(line) on the last hunk
PushHunk(cur, h) == << [cur[1] EXCEPT !.hunks = Append(@, h)] >>

PushLine(cur, line) ==
  << [cur[1] EXCEPT !.hunks[Len(cur[1].hunks)].lines = Append(@, line)] >>

\* "if (currentPatch) patches.push(currentPatch)" after the loop
ManualFlush(r) == Flush(r.patches, r.cur)

RECURSIVE ManualParse(_, _, _, _, _)
\* the loop of the hand parser: cur is the current patch (<< >> for null),
\* inHunk tells that currentHunk is set; currentHunk is then the last hunk
\* pushed, which may belong to a patch already in patches
ManualParse(ls, i, patches, cur, hunkAt) ==
  IF i > Len(ls) THEN [patches |-> patches, cur |-> cur, hunkAt |-> hunkAt]
  ELSE LET line == ls[i]
       IN  IF StartsOldA(line)
           THEN ManualParse(ls, i + 1, Flush(patches, cur),
                  << [oldFileName |-> SubSeq(line, 3, Len(line)), newFileName |-> << >>, hunks |-> << >>] >>,
                  hunkAt)
           ELSE IF StartsNewB(line)
           THEN ManualParse(ls, i + 1, patches,
                  IF cur # << >> THEN << [cur[1] EXCEPT !.newFileName = SubSeq(line, 3, Len(line))] >> ELSE cur,
                  hunkAt)
           ELSE IF StartsWith(line, "@@")
           THEN LET m == MatchHeader(line, TRUE)
                IN  IF m.ok /\ cur # << >>
                    THEN ManualParse(ls, i + 1, patches,
                           PushHunk(cur, [oldStart |-> m.oldStart, oldLines |-> m.oldLines,
                                          newStart |-> m.newStart, newLines |-> m.newLines,
                                          nan |-> FALSE, lines |-> << >>]),
                           Len(patches) + 1)
                    ELSE ManualParse(ls, i + 1, patches, cur, hunkAt)
           ELSE IF hunkAt # 0 /\ FirstChar(line) \in {"+", "-", " "}
           THEN IF hunkAt = Len(patches) + 1
                THEN ManualParse(ls, i + 1, patches, PushLine(cur, line), hunkAt)
                ELSE ManualParse(ls, i + 1,
                       [patches EXCEPT ![hunkAt].hunks[Len(patches[hunkAt].hunks)].lines = Append(@, line)],
                       cur, hunkAt)
           ELSE ManualParse(ls, i + 1, patches, cur, hunkAt)

\* the hand parser of parseDiffPatch
ManualParsePatch(text) == ManualFlush(ManualParse(SplitLines(text), 1, << >>, << >>, 0))

\* parseDiffPatch(patchContent)
ParsedOr(r, text) == IF r.ok THEN r.list ELSE ManualParsePatch(text)

parseDiffPatch(text) == ParsedOr(parsePatch(text), text)

\* ------------------------------------------------------------------------
\* applyPatch of the diff library (fuzzFactor 0)
\* ------------------------------------------------------------------------

\* lines[i] for a 0-based i; an undefined element is joined as the empty
\* string and equals no line of a hunk
Defined(ls, i) == 0 <= i /\ i < Len(ls)

LineOrEmpty(ls, i) == IF Defined(ls, i) THEN ls[i + 1] ELSE << >>

\* the hunk line's operation and content as applyPatch reads them
HunkOp(hunkLine) == IF hunkLine = << >> THEN " " ELSE FirstChar(hunkLine)

RECURSIVE ApplyHunkFrom(_, _, _, _, _, _, _)
\* applyHunk(hunkLines, toPos, 0): the patched lines and the last old line
\* the hunk covers, its trailing context trimmed; ok = FALSE for null.
\* nan: toPos is NaN, so that no line of the text is at toPos
ApplyHunkFrom(ls, hunkLines, j, toPos, nan, patched, nContext) ==
  IF j > Len(hunkLines)
  THEN [ok |-> TRUE, patchedLines |-> SubSeq(patched, 1, Len(patched) - nContext),
        oldLineLastI |-> toPos - nContext - 1]
  ELSE LET op == HunkOp(hunkLines[j])
           content == LineContent(hunkLines[j])
           same == ~nan /\ Defined(ls, toPos) /\ ls[toPos + 1] = content
       IN  IF op = "-"
           THEN IF same THEN ApplyHunkFrom(ls, hunkLines, j + 1, toPos + 1, nan, patched, 0)
                ELSE [ok |-> FALSE]
           ELSE IF op = "+"
           THEN ApplyHunkFrom(ls, hunkLines, j + 1, toPos, nan, Append(patched, content), 0)
           ELSE IF op = " "
           THEN IF same
                THEN ApplyHunkFrom(ls, hunkLines, j + 1, toPos + 1, nan, Append(patched, content), nContext + 1)
                ELSE [ok |-> FALSE]
           ELSE ApplyHunkFrom(ls, hunkLines, j + 1, toPos, nan, patched, nContext)

ApplyHunk(ls, hunkLines, toPos, nan) == ApplyHunkFrom(ls, hunkLines, 1, toPos, nan, << >>, 0)

\* the positions distanceIterator(start, minLine, maxLine) yields after
\* start itself, as <<distance, side>> with side 0 forward and 1 backward:
\* it yields them by distance, forward before backward
IteratorPositions(start, minLine, maxLine) ==
  {<<k, 0>> : k \in 1..(maxLine - start)} \cup {<<k, 1>> : k \in 1..(start - minLine)}

PositionOf(start, c) == IF c[2] = 0 THEN start + c[1] ELSE start - c[1]

Before(c, d) == c[1] < d[1] \/ (c[1] = d[1] /\ c[2] <= d[2])

\* the first position at which the hunk fits: start, then the iterator's
\* positions in their order; ok = FALSE when it fits nowhere
FindFit(ls, hunk, start, minLine, nan) ==
  IF ApplyHunk(ls, hunk.lines, start, nan).ok THEN [ok |-> TRUE, toPos |-> start]
  ELSE IF nan THEN [ok |-> FALSE]
  ELSE LET fits == {c \in IteratorPositions(start, minLine, Len(ls) - hunk.oldLines) :
                      ApplyHunk(ls, hunk.lines, PositionOf(start, c), FALSE).ok}
       IN  IF fits = {} THEN [ok |-> FALSE]
           ELSE [ok |-> TRUE,
                 toPos |-> PositionOf(start, CHOOSE c \in fits : \A d \in fits : Before(c, d))]

RECURSIVE CopyLines(_, _, _)
\* for (i = from; i < to; i++) resultLines.push(lines[i])
CopyLines(ls, from, to) ==
  IF from >= to THEN << >> ELSE << LineOrEmpty(ls, from) >> \o CopyLines(ls, from + 1, to)

RECURSIVE ApplyHunksLib(_, _, _, _, _, _, _)
RECURSIVE ApplyHunksAt(_, _, _, _, _, _, _)
RECURSIVE ApplyHunksPatched(_, _, _, _, _, _, _, _)
\* the hunk loop of applyPatch and the copy of the rest of the old text.
\* nan: minLine and prevHunkOffset have become NaN
ApplyHunksLib(ls, hunks, i, minLine, prevHunkOffset, nan, resultLines) ==
  IF i > Len(hunks)
  THEN [ok |-> TRUE,
        lines |-> resultLines \o (IF nan THEN << >> ELSE CopyLines(ls, minLine, Len(ls)))]
  ELSE ApplyHunksAt(ls, hunks, i, minLine, nan \/ hunks[i].nan, resultLines,
         FindFit(ls, hunks[i], hunks[i].oldStart + prevHunkOffset - 1, minLine, nan \/ hunks[i].nan))

\* "if (!hunkResult) return false" for the position fit found for hunk i
ApplyHunksAt(ls, hunks, i, minLine, isNaN, resultLines, fit) ==
  IF ~fit.ok THEN [ok |-> FALSE, lines |-> << >>]
  ELSE ApplyHunksPatched(ls, hunks, i, minLine, isNaN, resultLines, fit.toPos,
         ApplyHunk(ls, hunks[i].lines, fit.toPos, isNaN))

\* the lines before hunk i and its patched lines r are pushed, and the loop
\* goes on
ApplyHunksPatched(ls, hunks, i, minLine, isNaN, resultLines, toPos, r) ==
  ApplyHunksLib(ls, hunks, i + 1, r.oldLineLastI + 1, toPos + 1 - hunks[i].oldStart, isNaN,
    resultLines \o (IF isNaN THEN << >> ELSE CopyLines(ls, minLine, toPos)) \o r.patchedLines)

\* a "\ No newline at end of file" line of the last hunk after a line of
\* operation op
EOFMarkerAfter(hunk, op) ==
  \E j \in 2..Len(hunk.lines) :
    FirstChar(hunk.lines[j]) = BS /\ FirstChar(hunk.lines[j - 1]) = op

\* the lines of the source after the handling of the end-of-file newline;
\* ok = FALSE when applyPatch returns false there
EOFNLLines(ls, lastHunk) ==
  LET removeEOFNL == EOFMarkerAfter(lastHunk, "+")
      addEOFNL == EOFMarkerAfter(lastHunk, "-")
      lastEmpty == ls[Len(ls)] = << >>
  IN  IF removeEOFNL
      THEN IF addEOFNL THEN [ok |-> ~lastEmpty, lines |-> ls]
           ELSE [ok |-> lastEmpty, lines |-> SubSeq(ls, 1, Len(ls) - 1)]
      ELSE IF addEOFNL THEN [ok |-> ~lastEmpty, lines |-> Append(ls, << >>)]
      ELSE [ok |-> TRUE, lines |-> ls]

\* resultLines.join("\n")
PatchedText(r) ==
  IF r.ok THEN [ok |-> TRUE, text |-> JoinLines(r.lines)] ELSE [ok |-> FALSE, text |-> << >>]

ApplyAfterEOFNL(e, hunks) ==
  IF ~e.ok THEN [ok |-> FALSE, text |-> << >>]
  ELSE PatchedText(ApplyHunksLib(e.lines, hunks, 1, 0, 0, FALSE, << >>))

\* applyPatch(source, patch): ok = FALSE for the result false
applyPatch(source, uniDiff) ==
  IF uniDiff.hunks = << >> THEN [ok |-> TRUE, text |-> source]
  ELSE ApplyAfterEOFNL(EOFNLLines(SplitLines(source), uniDiff.hunks[Len(uniDiff.hunks)]),
                       uniDiff.hunks)

\* ------------------------------------------------------------------------
\* applyPatchManually
\* ------------------------------------------------------------------------

\* hunk.lines.filter(line => line.startsWith("+")).map(line => line.substring(1))
RECURSIVE PlusLines(_)
PlusLines(hunkLines) ==
  IF hunkLines = << >> THEN << >>
  ELSE (IF FirstChar(Head(hunkLines)) = "+" THEN << LineContent(Head(hunkLines)) >> ELSE << >>)
         \o PlusLines(Tail(hunkLines))

\* a hunk loop without the bounds test: a start outside the lines splices at
\* the nearest end
ManualHunkUnchecked(resultLines, hunk) ==
  LET oldStart == IF hunk.nan THEN 0 ELSE Max(0, Min(hunk.oldStart - 1, Len(resultLines)))
      endIndex == Min(oldStart + hunk.oldLines, Len(resultLines))
      removed == IF hunk.oldLines > 0 /\ ~hunk.nan
                 THEN SubSeq(resultLines, 1, oldStart)
                        \o SubSeq(resultLines, endIndex + 1, Len(resultLines))
                 ELSE resultLines
  IN  SubSeq(removed, 1, oldStart) \o PlusLines(hunk.lines)
        \o SubSeq(removed, oldStart + 1, Len(removed))

\* one iteration of the hunk loop on the lines in result.  A NaN oldStart
\* passes the bounds test and splices at 0
ManualHunk(resultLines, hunk) ==
  LET oldStart == IF hunk.nan THEN 0 ELSE hunk.oldStart - 1
  IN  IF ~hunk.nan /\ (oldStart < 0 \/ oldStart >= Len(resultLines))
      THEN resultLines
      ELSE LET endIndex == Min(oldStart + hunk.oldLines, Len(resultLines))
               removed == IF hunk.oldLines > 0 /\ ~hunk.nan
                          THEN SubSeq(resultLines, 1, oldStart)
                                 \o SubSeq(resultLines, endIndex + 1, Len(resultLines))
                          ELSE resultLines
           IN  SubSeq(removed, 1, oldStart) \o PlusLines(hunk.lines)
                 \o SubSeq(removed, oldStart + 1, Len(removed))

RECURSIVE ManualHunks(_, _)
ManualHunks(resultLines, hunks) ==
  IF hunks = << >> THEN resultLines
  ELSE ManualHunks(ManualHunk(resultLines, Head(hunks)), Tail(hunks))

\* applyPatchManually(originalContent, parsedPatch).  Nothing in its try
\* block throws on a parsed patch, so that it never returns null
applyPatchManually(originalContent, parsedPatch) ==
  JoinLines(ManualHunks(SplitLines(originalContent), parsedPatch.hunks))

\* ------------------------------------------------------------------------
\* The file system behind fs.readFile, fs.mkdir and fs.writeFile
\* ------------------------------------------------------------------------

\* a path is the sequence of lexemes of its name
FileEntry(text) == [kind |-> "file", text |-> text]

DirEntry == [kind |-> "dir", text |-> << >>]

IsFile(f, path) == path \in DOMAIN f /\ f[path].kind = "file"

IsDir(f, path) == path \in DOMAIN f /\ f[path].kind = "dir"

\* path.dirname(file) for the names of the model: "s/h" lies in "s", every
\* other name in the working directory
Dirname(file) == IF file = << "s/h" >> THEN << "s" >> ELSE << "." >>

\* f with path bound to entry
WithEntry(f, path, entry) ==
  [q \in DOMAIN f \cup {path} |-> IF q = path THEN entry ELSE f[q]]

\* fs.readFile(file, "utf8"): ok = FALSE when it throws (no such file, or a
\* directory)
ReadFile(f, file) ==
  IF IsFile(f, file) THEN [ok |-> TRUE, text |-> f[file].text] ELSE [ok |-> FALSE, text |-> << >>]

\* fs.mkdir(dir, {recursive: true}): it throws when dir is a regular file
Mkdir(f, dir) ==
  IF IsFile(f, dir) THEN [ok |-> FALSE, fs |-> f]
  ELSE [ok |-> TRUE, fs |-> WithEntry(f, dir, DirEntry)]

\* fs.writeFile(file, text, "utf8"): it throws for the empty name, for a
\* directory and for a missing parent directory
WriteFile(f, file, text) ==
  IF file = << >> \/ IsDir(f, file)
       \/ (Dirname(file) # << "." >> /\ ~IsDir(f, Dirname(file)))
  THEN [ok |-> FALSE, fs |-> f]
  ELSE [ok |-> TRUE, fs |-> WithEntry(f, file, FileEntry(text))]

\* "create the directory if it doesn't exist" then "write the file": the
\* file system after both, ok = FALSE when either throws
MkdirAndWrite(f, file, text) ==
  LET dir == Dirname(file)
      m == IF dir # << "." >> /\ dir # << >> THEN Mkdir(f, dir) ELSE [ok |-> TRUE, fs |-> f]
  IN  IF ~m.ok THEN m ELSE WriteFile(m.fs, file, text)

\* ------------------------------------------------------------------------
\* write_patch
\* ------------------------------------------------------------------------

\* parsedPatch.newFileName || parsedPatch.oldFileName || "", then
\* file.replace(/^[ab]\//, "")
PatchFile(parsedPatch) ==
  LET file == IF parsedPatch.newFileName # << >> THEN parsedPatch.newFileName
              ELSE parsedPatch.oldFileName
  IN  IF file # << >> /\ file[1] \in {"a/", "b/"} THEN Tail(file) ELSE file

\* the text written for a patch: the result of applyPatch, and the result
\* of applyPatchManually when applyPatch returns false
DiffResultManualOnly(originalContent, parsedPatch) ==
  applyPatchManually(originalContent, parsedPatch)

ResultOrManual(r, originalContent, parsedPatch) ==
  IF r.ok THEN r.text ELSE applyPatchManually(originalContent, parsedPatch)

DiffResult(originalContent, parsedPatch) ==
  ResultOrManual(applyPatch(originalContent, parsedPatch), originalContent, parsedPatch)

\* unescapedPatch.split(/(?:^|\n)=== file:/): "=== file:" separates where it
\* opens the text or follows a newline, which it takes with it
SplitBlocks(text) ==
  PiecesAt(text,
           {k \in 1..Len(text) : text[k] = "=== file:" /\ (k = 1 \/ text[k - 1] = NL)}, 2)

\* blocks.length > 1
HasBlocksOffByOne(bs) == Len(bs) >= 1

HasBlocks(bs) == Len(bs) > 1

RECURSIVE TrimRight(_)
TrimRight(line) ==
  IF line # << >> /\ line[Len(line)] = " " THEN TrimRight(SubSeq(line, 1, Len(line) - 1)) ELSE line

RECURSIVE TrimLeft(_)
TrimLeft(line) == IF line # << >> /\ line[1] = " " THEN TrimLeft(Tail(line)) ELSE line

\* filePathLine.replace(/\s*===\s*$/, "").trim()
BlockFile(filePathLine) ==
  LET t == TrimRight(filePathLine)
      u == IF t # << >> /\ t[Len(t)] = " ===" THEN SubSeq(t, 1, Len(t) - 1) ELSE filePathLine
  IN  TrimLeft(TrimRight(u))

\* the body of a block without the removal of the newline that ends the
\* header line
BlockBodyKeepNewline(block) ==
  LET ls == SplitLines(block)
      marks == {k \in 1..Len(block) : block[k] = "=== end ==="}
  IN  IF marks = {} THEN JoinLines(Tail(ls))
      ELSE LET endMarkerIndex == (CHOOSE k \in marks : \A j \in marks : k <= j) - 1
           IN  Slice(block, Min(Len(ls[1]), endMarkerIndex), Max(Len(ls[1]), endMarkerIndex))

\* the body of a block: the text between the header line and the end
\* marker, or everything after the header line when there is no marker
BlockBody(block) ==
  LET ls == SplitLines(block)
      marks == {k \in 1..Len(block) : block[k] = "=== end ==="}
  IN  IF marks = {} THEN JoinLines(Tail(ls))
      ELSE LET endMarkerIndex == (CHOOSE k \in marks : \A j \in marks : k <= j) - 1
               contentBeforeEnd ==
                 Slice(block, Min(Len(ls[1]), endMarkerIndex), Max(Len(ls[1]), endMarkerIndex))
           IN  IF contentBeforeEnd # << >> /\ contentBeforeEnd[1] = NL
               THEN Tail(contentBeforeEnd) ELSE contentBeforeEnd

NoResult == [applied |-> << >>, mode |-> "", error |-> ""]

WriteIdle ==
  /\ sub = << >> /\ patch = << >> /\ unescapedPatch = << >> /\ parsedPatches = << >>
  /\ blocks = << >> /\ wi = 0 /\ replaced = << >> /\ wpc = "idle" /\ wresult = NoResult

\* the unescaping and parseDiffPatch(unescapedPatch)
WParse ==
  /\ wpc = "start"
  /\ unescapedPatch' = Unescape(patch)
  /\ parsedPatches' = parseDiffPatch(unescapedPatch')
  /\ wi' = 1
  /\ wpc' = IF Len(parsedPatches') > 0 THEN "diff" ELSE "full"
  /\ UNCHANGED <<sub, patch, blocks, replaced, wresult, fsVars, editVars, diffVars, genVars, agentVars>>

\* the outcome w of mkdir and writeFile for file on the diff path.  A throw
\* is caught by the catch around the diff path, which goes on to the
\* full-file format
WDiffWritten(file, w) ==
  /\ fs' = w.fs
  /\ IF w.ok
     THEN /\ replaced' = Append(replaced, file)
          /\ written' = Append(written, << file, "diff" >>)
          /\ wi' = wi + 1
          /\ UNCHANGED wpc
     ELSE /\ wpc' = "full"
          /\ UNCHANGED <<replaced, written, wi>>

\* the body of the loop for parsedPatch, whose target is file: "if (!file)
\* continue", the read (a failed read gives ""), the application, the write
WDiffFile(parsedPatch, file) ==
  IF file = << >>
  THEN /\ wi' = wi + 1
       /\ UNCHANGED <<fs, written, replaced, wpc>>
  ELSE WDiffWritten(file,
         MkdirAndWrite(fs, file, DiffResult(ReadFile(fs, file).text, parsedPatch)))

\* for (const parsedPatch of parsedPatches): one iteration
WDiffPatch ==
  /\ wpc = "diff" /\ wi <= Len(parsedPatches)
  /\ WDiffFile(parsedPatches[wi], PatchFile(parsedPatches[wi]))
  /\ UNCHANGED <<sub, patch, unescapedPatch, parsedPatches, blocks, wresult, fs0, editVars, diffVars, genVars, agentVars>>

\* the end of the loop: if (replaced.length > 0) return {applied, mode: "diff"}
WDiffDone ==
  /\ wpc = "diff" /\ wi > Len(parsedPatches)
  /\ IF Len(replaced) > 0
     THEN /\ wpc' = "returned"
          /\ wresult' = [applied |-> replaced, mode |-> "diff", error |-> ""]
     ELSE /\ wpc' = "full"
          /\ UNCHANGED wresult
  /\ UNCHANGED <<sub, patch, unescapedPatch, parsedPatches, blocks, wi, replaced, fsVars, editVars, diffVars, genVars, agentVars>>

\* the split into full-file blocks, and the return of mode "none" when
\* there is none
WFullSplit ==
  /\ wpc = "full"
  /\ blocks' = SplitBlocks(unescapedPatch)
  /\ IF HasBlocks(blocks')
     THEN /\ wpc' = "block" /\ wi' = 2
          /\ UNCHANGED wresult
     ELSE /\ wpc' = "returned"
          /\ wresult' = [applied |-> << >>, mode |-> "none", error |-> "No recognized patch blocks"]
          /\ UNCHANGED wi
  /\ UNCHANGED <<sub, patch, unescapedPatch, parsedPatches, replaced, fsVars, editVars, diffVars, genVars, agentVars>>

\* the outcome w of mkdir and writeFile for file on the full-file path.
\* Nothing catches a throw here: write_patch rejects
WBlockWritten(file, w) ==
  /\ fs' = w.fs
  /\ IF w.ok
     THEN /\ replaced' = Append(replaced, file)
          /\ written' = Append(written, << file, "full-file" >>)
          /\ wi' = wi + 1
          /\ UNCHANGED wpc
     ELSE /\ wpc' = "raised"
          /\ UNCHANGED <<replaced, written, wi>>

WBlockFile(block, file) == WBlockWritten(file, MkdirAndWrite(fs, file, BlockBody(block)))

\* for (let i = 1; i < blocks.length; i++): one iteration
WBlock ==
  /\ wpc = "block" /\ wi <= Len(blocks)
  /\ WBlockFile(blocks[wi], BlockFile(SplitLines(blocks[wi])[1]))
  /\ UNCHANGED <<sub, patch, unescapedPatch, parsedPatches, blocks, wresult, fs0, editVars, diffVars, genVars, agentVars>>

\* return {applied: replaced, mode: "full-file"}
WBlockDone ==
  /\ wpc = "block" /\ wi > Len(blocks)
  /\ wpc' = "returned"
  /\ wresult' = [applied |-> replaced, mode |-> "full-file", error |-> ""]
  /\ UNCHANGED <<sub, patch, unescapedPatch, parsedPatches, blocks, wi, replaced, fsVars, editVars, diffVars, genVars, agentVars>>

NextWrite == WParse \/ WDiffPatch \/ WDiffDone \/ WFullSplit \/ WBlock \/ WBlockDone

\* ------------------------------------------------------------------------
\* Submissions to write_patch and the specifications
\* ------------------------------------------------------------------------

\* the largest number of sections (file patches, blocks, other text) of a
\* submission
MaxSections == 2

\* the file the diffs are written against: "L1\nL2\nL3\n"
F1 == << "L1", NL, "L2", NL, "L3", NL >>

NumWordOf(n) == CHOOSE w \in NumWords : NatOf(w) = n

Ctx(t) == [op |-> " ", text |-> t]

Add(t) == [op |-> "+", text |-> t]

Del(t) == [op |-> "-", text |-> t]

Hunk(oldStart, oldLines, newStart, newLines, body) ==
  [oldStart |-> oldStart, oldLines |-> oldLines, newStart |-> newStart,
   newLines |-> newLines, body |-> body]

InsBody == << Ctx(<< "L1" >>), Ctx(<< "L2" >>), Add(<< "N1" >>), Ctx(<< "L3" >>) >>

\* "@@ -1,3 +1,4 @@": N1 after L2
hIns == Hunk(1, 3, 1, 4, InsBody)

\* the same hunk under a header that points past the end of the file
hFar == Hunk(9, 3, 9, 4, InsBody)

\* the same hunk under a header whose new count is wrong
hMiscount == Hunk(1, 3, 1, 9, InsBody)

\* the added line holds a backslash followed by t
hEsc == Hunk(1, 3, 1, 4, << Ctx(<< "L1" >>), Ctx(<< "L2" >>), Add(<< "N1", BS, "t" >>), Ctx(<< "L3" >>) >>)

\* two hunks: L1 removed, N1 added after L3
hDel == Hunk(1, 1, 1, 0, << Del(<< "L1" >>) >>)

hApp == Hunk(3, 1, 2, 2, << Ctx(<< "L3" >>), Add(<< "N1" >>) >>)

\* a removed line the file does not hold
hNoMatch == Hunk(1, 1, 1, 1, << Del(<< "Z1" >>), Add(<< "N1" >>) >>)

\* the same, under a header that points past the end of the file
hOut == Hunk(9, 1, 9, 1, << Del(<< "Z1" >>), Add(<< "N1" >>) >>)

\* a hunk that creates a file
hNew == Hunk(0, 0, 1, 1, << Add(<< "N1" >>) >>)

DiffSection(file, hunks) ==
  [kind |-> "diff", file |-> file, hunks |-> hunks, content |-> << >>, glue |-> FALSE, end |-> TRUE]

BlockSection(file, content, glue, end) ==
  [kind |-> "block", file |-> file, hunks |-> << >>, content |-> content, glue |-> glue, end |-> end]

\* text that is neither a patch nor a block
JunkSection ==
  [kind |-> "junk", file |-> << >>, hunks |-> << >>, content |-> << "junk" >>, glue |-> FALSE, end |-> TRUE]

\* a hunk under no file header
NamelessSection ==
  [kind |-> "hunks", file |-> << >>, hunks |-> << hIns >>, content |-> << >>, glue |-> FALSE, end |-> TRUE]

\* "@@ -oldStart,oldLines +newStart,newLines @@"
RenderHeader(h) ==
  << "@@", " ", "-", NumWordOf(h.oldStart), ",", NumWordOf(h.oldLines), " ",
     "+", NumWordOf(h.newStart), ",", NumWordOf(h.newLines), " ", "@@" >>

\* the lines of a hunk body, each after a newline
RECURSIVE RenderBody(_)
RenderBody(body) ==
  IF body = << >> THEN << >>
  ELSE << NL, body[1].op >> \o body[1].text \o RenderBody(Tail(body))

\* a file section whose hunk header is written as the text header, followed
\* by the lines of body
LooseSection(file, header, body) ==
  [kind |-> "loose", file |-> file, hunks |-> << >>,
   content |-> << "--- ", "a/" >> \o file \o << NL, "+++ ", "b/" >> \o file \o << NL >>
                 \o header \o RenderBody(body),
   glue |-> FALSE, end |-> TRUE]

\* "@@ -1 +1 @@": the counts left out
NoCountHeader == << "@@", " ", "-", "1", " ", "+", "1", " ", "@@" >>

\* "@@-1,1 +1,2@@": no space after the first and before the last "@@"
TightHeader == << "@@", "-", "1", ",", "1", " ", "+", "1", ",", "2", "@@" >>

\* L1 replaced by two lines
TwoForOne == << Del(<< "L1" >>), Add(<< "N1" >>), Add(<< "N2" >>) >>

\* the section of a file to create: "--- /dev/null", "+++ b/file" and hNew
NewFileSection(file) ==
  [kind |-> "loose", file |-> file, hunks |-> << >>,
   content |-> << "--- ", "/dev/null", NL, "+++ ", "b/" >> \o file \o << NL >>
                 \o RenderHeader(hNew) \o RenderBody(hNew.body),
   glue |-> FALSE, end |-> TRUE]

Sections ==
  { DiffSection(<< "f" >>, hs) :
      hs \in { << hIns >>, << hFar >>, << hMiscount >>, << hEsc >>, << hDel, hApp >>,
               << hApp, hDel >>, << hNoMatch >>, << hOut >>, << hDel, hOut >>,
               << hOut, hDel >>, << >> } }
  \cup { DiffSection(<< "d" >>, << hIns >>), DiffSection(<< "s/h" >>, << hNew >>),
         DiffSection(<< "g" >>, << hNew >>), DiffSection(<< "g" >>, << hOut >>),
         DiffSection(<< "g" >>, << >>) }
  \cup { BlockSection(<< "g" >>, c, FALSE, TRUE) :
           c \in { << "N1", NL >>, << "N1" >>, << "N1", BS, "n" >>,
                   << "N1", BS, BS, "n" >>, << >> } }
  \cup { BlockSection(<< "f" >>, << "N2", NL >>, gl, TRUE) : gl \in BOOLEAN }
  \cup { BlockSection(<< "d" >>, << "N1", NL >>, FALSE, TRUE),
         BlockSection(<< "s/h" >>, << "N1", NL >>, FALSE, TRUE),
         BlockSection(<< "g" >>, << "N2", NL >>, FALSE, FALSE) }
  \cup { JunkSection, NamelessSection }
  \cup { LooseSection(<< "f" >>, NoCountHeader, TwoForOne),
         LooseSection(<< "f" >>, TightHeader, TwoForOne),
         NewFileSection(<< "g" >>) }

RECURSIVE RenderHunks(_)
RenderHunks(hs) ==
  IF hs = << >> THEN << >>
  ELSE << NL >> \o RenderHeader(hs[1]) \o RenderBody(hs[1].body) \o RenderHunks(Tail(hs))

\* the text of a section; no section ends with a newline
RenderSection(sec) ==
  CASE sec.kind = "diff" ->
         << "--- ", "a/" >> \o sec.file \o << NL, "+++ ", "b/" >> \o sec.file \o RenderHunks(sec.hunks)
    [] sec.kind = "hunks" -> Tail(RenderHunks(sec.hunks))
    [] sec.kind = "block" ->
         << "=== file:" >> \o sec.file \o << " ===", NL >> \o sec.content
           \o (IF sec.end THEN << "=== end ===" >> ELSE << >>)
    [] OTHER -> sec.content

RECURSIVE RenderFrom(_, _)
\* the text of a submission: a section follows the one before it after a
\* newline, or directly when it is glued
RenderFrom(secs, k) ==
  IF k > Len(secs) THEN << >>
  ELSE (IF k > 1 /\ ~secs[k].glue THEN << NL >> ELSE << >>)
         \o RenderSection(secs[k]) \o RenderFrom(secs, k + 1)

Render(secs) == RenderFrom(secs, 1)

\* the files and directories write_patch starts from: f holds F1, d is a
\* directory, s is missing or a regular file, g and s/h are missing
InitialFs ==
  { [q \in {<< "f" >>, << "d" >>} |-> IF q = << "f" >> THEN FileEntry(F1) ELSE DirEntry],
    [q \in {<< "f" >>, << "d" >>, << "s" >>} |->
       IF q = << "d" >> THEN DirEntry ELSE IF q = << "f" >> THEN FileEntry(F1) ELSE FileEntry(<< "L1" >>)] }

\* ------------------------------------------------------------------------
\* generateUnifiedDiffForFile and planToUnifiedDiffs
\* (tools/project-analysis.ts)
\* ------------------------------------------------------------------------

\* the largest number of changes of a plan
MaxChanges == 2

\* the edit c resolved before those of rest
PrependResolved(c, rest) ==
  IF rest.ok THEN [rest EXCEPT !.cs = << c >> \o @] ELSE rest

RECURSIVE ResolveAll(_, _, _)
RECURSIVE ResolveNext(_, _, _, _)
\* the resolution loop of applyEditsToText over the edits from k on
ResolveAll(text, es, k) ==
  IF k > Len(es) THEN [ok |-> TRUE, cs |-> << >>, err |-> ""]
  ELSE ResolveNext(text, es, k, ResolveEdit(text, es[k]))

ResolveNext(text, es, k, r) ==
  IF ~r.ok THEN [ok |-> FALSE, cs |-> << >>, err |-> r.err]
  ELSE PrependResolved(r.c, ResolveAll(text, es, k + 1))

RECURSIVE SpliceAll(_, _)
\* the splice loop of applyEditsToText over the sorted edits
SpliceAll(text, cs) ==
  IF cs = << >> THEN text ELSE SpliceAll(SpliceOne(text, Head(cs)), Tail(cs))

\* applyEditsToText for the resolved edits r
EditedOrThrown(text, r) ==
  IF ~r.ok THEN [ok |-> FALSE, text |-> << >>, err |-> r.err]
  ELSE IF HasOverlap(r.cs) THEN [ok |-> FALSE, text |-> << >>, err |-> "Overlapping edits"]
  ELSE [ok |-> TRUE, text |-> SpliceAll(text, SortDescByStart(r.cs)), err |-> ""]

\* applyEditsToText(original, edits): ok = FALSE when it throws
applyEditsToText(text, es) == EditedOrThrown(text, ResolveAll(text, es, 1))

\* the texts readFileFn gives: f ends with a newline, g does not
DiffFiles == {<< "f" >>, << "g" >>}

readFileFn(filePath) == IF filePath = << "f" >> THEN F1 ELSE << "L1", NL, "L2" >>

\* readFileFn is the caller's: it throws, or its promise rejects, for the
\* file z
ReadRejects(filePath) == filePath = << "z" >>

\* the edit lists of the changes of a plan
EditLists ==
  { << >>,
    << TokenEdit("insertAfter", << "L2", NL >>, << "N1", NL >>, FALSE, 0) >>,
    << TokenEdit("replace", << "L2" >>, << "N1" >>, TRUE, 1) >>,
    << ReplaceRangeEdit(0, 2, << >>) >>,
    << TokenEdit("delete", << "Z1" >>, << >>, FALSE, 0) >> }

Changes ==
  {[filePath |-> p, edits |-> es] : p \in DiffFiles, es \in EditLists}
    \cup {[filePath |-> << "z" >>, edits |-> << >>]}

\* "\ No newline at end of file"
NoNewline == [op |-> BS, text |-> << " No newline at end of file" >>]

\* the lists of hunks createTwoFilesPatch may give.  The library is not part
\* of the sources: its result is any of these, the hunks of a right diff and
\* of a wrong one alike
CandidateHunks ==
  { << >>, << hIns >>, << hFar >>,
    << Hunk(1, 3, 1, 3, << Ctx(<< "L1" >>), Del(<< "L2" >>), Add(<< "N1" >>), Ctx(<< "L3" >>) >>) >>,
    << Hunk(1, 3, 1, 2, << Del(<< "L1" >>), Ctx(<< "L2" >>), Ctx(<< "L3" >>) >>) >>,
    << Hunk(1, 2, 1, 2, << Ctx(<< "L1" >>), Del(<< "L2" >>), NoNewline, Add(<< "N1" >>), NoNewline >>) >>,
    << Hunk(1, 2, 1, 1, << Del(<< "L1" >>), Ctx(<< "L2" >>), NoNewline >>) >> }

\* the text createTwoFilesPatch("a/" + filePath, "b/" + filePath, ..., "old",
\* "new", {context: 3}) gives for the hunks hs
createTwoFilesPatch(filePath, hs) ==
  << "======", NL, "--- ", "a/" >> \o filePath \o << TAB, "old", NL, "+++ ", "b/" >> \o filePath
    \o << TAB, "new" >> \o RenderHunks(hs) \o << NL >>

\* a check of the round trip that leaves out the comparison of the texts
RoundTripOkNoCompare(roundTrip, editedText) == roundTrip.ok

\* !(roundTrip === false || roundTrip !== editedText)
RoundTripOk(roundTrip, editedText) == roundTrip.ok /\ roundTrip.text = editedText

\* applyPatch(oldText, parsed[0]) and its check; a parsePatch that throws or
\* gives no patch makes generateUnifiedDiffForFile throw as well
VerifyParsed(parsed, oldText, editedText) ==
  /\ parsed.ok /\ Len(parsed.list) > 0
  /\ RoundTripOk(applyPatch(oldText, parsed.list[1]), editedText)

\* generateUnifiedDiffForFile(filePath, oldText, editedText) for the text
\* patchText that createTwoFilesPatch gave: ok = FALSE when it throws
generateUnifiedDiffForFile(patchText, oldText, editedText) ==
  [ok |-> VerifyParsed(parsePatch(patchText), oldText, editedText), diff |-> patchText]

\* done is the place of the callback among the callbacks in the order they
\* ended, 0 while it has not ended
Todo == [pc |-> "todo", oldText |-> << >>, newText |-> << >>, diff |-> << >>, done |-> 0]

\* the place of the callback that ends now
EndsAs == 1 + Cardinality({j \in 1..Len(plan) : dwork[j].pc # "todo"})

DiffIdle == plan = << >> /\ dwork = << >> /\ dpc = "idle" /\ dresult = << >>

\* the callback of change k after generateUnifiedDiffForFile gave g
DGenerated(k, oldText, newText, g) ==
  dwork' = [dwork EXCEPT ![k] = [pc |-> IF g.ok THEN "ok" ELSE "threw", oldText |-> oldText,
                                  newText |-> newText,
                                  diff |-> IF g.ok THEN g.diff ELSE << >>,
                                  done |-> EndsAs]]

\* the callback of change k after applyEditsToText gave a
DEdited(k, oldText, a) ==
  IF ~a.ok
  THEN dwork' = [dwork EXCEPT ![k] = [pc |-> "threw", oldText |-> oldText,
                                       newText |-> << >>, diff |-> << >>,
                                       done |-> EndsAs]]
  ELSE \E hs \in CandidateHunks :
         DGenerated(k, oldText, a.text,
           generateUnifiedDiffForFile(createTwoFilesPatch(plan[k].filePath, hs), oldText, a.text))

\* the callback of plan.changes.map for one change: the read, the edits,
\* the diff.  The callbacks share nothing and end in any order
DChange ==
  /\ \E k \in 1..Len(plan) :
       /\ dwork[k].pc = "todo"
       /\ IF ReadRejects(plan[k].filePath)
          THEN dwork' = [dwork EXCEPT ![k].pc = "threw", ![k].done = EndsAs]
          ELSE DEdited(k, readFileFn(plan[k].filePath),
                       applyEditsToText(readFileFn(plan[k].filePath), plan[k].edits))
  /\ UNCHANGED <<plan, dpc, dresult, editVars, fsVars, writeVars, genVars, agentVars>>

\* a call that resolves with the pairs of the callbacks that returned one,
\* once no callback is left to run
DReturnPartial ==
  /\ dpc = "run" /\ \A k \in 1..Len(plan) : dwork[k].pc # "todo"
  /\ dpc' = "returned"
  /\ dresult' = SelectSeq([k \in 1..Len(plan) |->
                             [filePath |-> plan[k].filePath, diff |-> dwork[k].diff]],
                          LAMBDA r : r.diff # << >>)
  /\ UNCHANGED <<plan, dwork, editVars, fsVars, writeVars, genVars, agentVars>>

\* a call that resolves with the pairs in the order the callbacks ended
DReturnAsEnded ==
  /\ dpc = "run" /\ \A k \in 1..Len(plan) : dwork[k].pc = "ok"
  /\ dpc' = "returned"
  /\ dresult' = [r \in 1..Len(plan) |->
                  [filePath |-> plan[CHOOSE k \in 1..Len(plan) : dwork[k].done = r].filePath,
                   diff |-> dwork[CHOOSE k \in 1..Len(plan) : dwork[k].done = r].diff]]
  /\ UNCHANGED <<plan, dwork, editVars, fsVars, writeVars, genVars, agentVars>>

\* Promise.all resolves when every callback has returned its pair
DReturn ==
  /\ dpc = "run" /\ \A k \in 1..Len(plan) : dwork[k].pc = "ok"
  /\ dpc' = "returned"
  /\ dresult' = [k \in 1..Len(plan) |-> [filePath |-> plan[k].filePath, diff |-> dwork[k].diff]]
  /\ UNCHANGED <<plan, dwork, editVars, fsVars, writeVars, genVars, agentVars>>

\* Promise.all rejects when a callback has thrown
DReject ==
  /\ dpc = "run" /\ \E k \in 1..Len(plan) : dwork[k].pc = "threw"
  /\ dpc' = "rejected"
  /\ UNCHANGED <<plan, dwork, dresult, editVars, fsVars, writeVars, genVars, agentVars>>

NextDiff == DChange \/ DReturn \/ DReject

\* ------------------------------------------------------------------------
\* generate_patch (tools/project-analysis.ts)
\* ------------------------------------------------------------------------

\* the largest number of instructions of a batch
MaxInstructions == 2

\* A PatchInstruction.  line, content and oldContent are optional: has =
\* FALSE is a field left out
Instruction(file, operation, line, content, oldContent) ==
  [file |-> file, operation |-> operation, line |-> line, content |-> content,
   oldContent |-> oldContent]

Absent == [has |-> FALSE, n |-> 0, text |-> << >>]

LineNo(n) == [has |-> TRUE, n |-> n, text |-> << >>]

Content(text) == [has |-> TRUE, n |-> 0, text |-> text]

\* !field for a string field: left out, or the empty string
Falsy(field) == ~field.has \/ field.text = << >>

\* lines[i] for a 0-based i: undefined past the end, which a template string
\* writes as "undefined"
LineAt(lines, i) == IF i >= 0 /\ i < Len(lines) THEN lines[i + 1] ELSE << "undefined" >>

\* the patch lines op + lines[i] for from <= i < to
LinesOp(op, lines, from, to) ==
  [k \in 1..(IF to > from THEN to - from ELSE 0) |-> [op |-> op, text |-> LineAt(lines, from + k - 1)]]

\* the patch lines "+" + newLine for the lines of the content
AddLines(newLines) == [k \in 1..Len(newLines) |-> Add(newLines[k])]

RECURSIVE Trim(_)
\* String.prototype.trim()
Trim(text) ==
  IF text # << >> /\ text[1] \in {NL, " ", TAB} THEN Trim(Tail(text))
  ELSE IF text # << >> /\ text[Len(text)] \in {NL, " ", TAB} THEN Trim(SubSeq(text, 1, Len(text) - 1))
  ELSE text

\* findBlockRange after haystack.indexOf(block) gave idx
BlockRangeAt(haystack, block, idx) ==
  IF idx = -1 THEN [ok |-> FALSE, start |-> 0, end |-> 0]
  ELSE [ok |-> TRUE,
        start |-> IF Slice(haystack, 0, idx) = << >> THEN 0
                  ELSE Len(SplitLines(Slice(haystack, 0, idx))) - 1,
        end |-> (IF Slice(haystack, 0, idx) = << >> THEN 0
                 ELSE Len(SplitLines(Slice(haystack, 0, idx))) - 1)
                  + Len(SplitLines(block)) - 1]

\* findBlockRange(lines, block): ok = FALSE for null
findBlockRange(lines, block) ==
  IF block = << >> THEN [ok |-> FALSE, start |-> 0, end |-> 0]
  ELSE BlockRangeAt(JoinLines(lines), block, IndexOf(JoinLines(lines), block, 0))

\* a validation that asks for a file and a known operation only
validateFileAndOperation(instruction) ==
  (IF instruction.file = << >> THEN << "File path is required" >> ELSE << >>)
  \o (IF instruction.operation = "" THEN << "Operation is required" >>
      ELSE IF instruction.operation \notin {"add", "replace", "delete", "insert"}
      THEN << "Invalid operation" >> ELSE << >>)

\* validatePatchInstruction(instruction): the list of its errors
validatePatchInstruction(instruction) ==
  (IF instruction.file = << >> THEN << "File path is required" >> ELSE << >>)
  \o (IF instruction.operation = "" THEN << "Operation is required" >>
      ELSE IF instruction.operation \notin {"add", "replace", "delete", "insert"}
      THEN << "Invalid operation" >> ELSE << >>)
  \o (IF instruction.operation = "add" /\ Falsy(instruction.content)
      THEN << "Content is required for 'add' operation" >> ELSE << >>)
  \o (IF instruction.operation = "replace" /\ Falsy(instruction.content)
      THEN << "Content is required for 'replace' operation" >> ELSE << >>)
  \o (IF instruction.operation = "insert" /\ Falsy(instruction.content)
      THEN << "Content is required for 'insert' operation" >> ELSE << >>)
  \o (IF instruction.operation = "delete" /\ Falsy(instruction.oldContent)
      THEN << "oldContent is required for 'delete' operation" >> ELSE << >>)
  \o (IF instruction.line.has /\ instruction.line.n < 0
      THEN << "Line number must be non-negative" >> ELSE << >>)

\* what a generator gives: the patch of one file with its one hunk, or the
\* error it throws
Threw(err) == [ok |-> FALSE, err |-> err, oldName |-> << >>, newName |-> << >>, hunk |-> Hunk(0, 0, 0, 0, << >>)]

FilePatch(oldName, newName, hunk) ==
  [ok |-> TRUE, err |-> "", oldName |-> oldName, newName |-> newName, hunk |-> hunk]

\* the patch lines joined with "\n"
PatchLinesText(p) ==
  << "--- " >> \o p.oldName \o << NL, "+++ " >> \o p.newName \o RenderHunks(<< p.hunk >>)

\* an add that compiles whether or not the file exists
generateAddPatchOverExisting(file, content, fileExists) ==
  FilePatch(<< "/dev/null" >>, << "b/" >> \o file,
            Hunk(0, 0, 1, Len(SplitLines(content)), AddLines(SplitLines(content))))

\* generateAddPatch(file, content, fileExists)
generateAddPatch(file, content, fileExists) ==
  IF fileExists THEN Threw("already exists")
  ELSE FilePatch(<< "/dev/null" >>, << "b/" >> \o file,
                 Hunk(0, 0, 1, Len(SplitLines(content)), AddLines(SplitLines(content))))

\* the hunk of generateInsertPatch between patchStart and patchEnd
InsertHunk(lines, insertLine, newLines, patchStart, patchEnd) ==
  Hunk(patchStart + 1, patchEnd - patchStart, patchStart + 1,
       patchEnd - patchStart + Len(newLines),
       LinesOp(" ", lines, patchStart, insertLine) \o AddLines(newLines)
         \o LinesOp(" ", lines, insertLine, patchEnd))

\* an insert that takes the line after the position one past the last line
generateInsertPatchOnePast(file, lines, insertLine, content) ==
  IF insertLine < 0 \/ insertLine > Len(lines) + 1 THEN Threw("Invalid line number")
  ELSE FilePatch(<< "a/" >> \o file, << "b/" >> \o file,
                 InsertHunk(lines, insertLine, SplitLines(content),
                            Max(0, insertLine - 3), Min(Len(lines), insertLine + 3)))

\* generateInsertPatch(file, lines, insertLine, content), contextLines = 3
generateInsertPatch(file, lines, insertLine, content) ==
  IF insertLine < 0 \/ insertLine > Len(lines) THEN Threw("Invalid line number")
  ELSE FilePatch(<< "a/" >> \o file, << "b/" >> \o file,
                 InsertHunk(lines, insertLine, SplitLines(content),
                            Max(0, insertLine - 3), Min(Len(lines), insertLine + 3)))

\* generateFullFileReplacePatch(file, oldLines, newLines)
generateFullFileReplacePatch(file, oldLines, newLines) ==
  FilePatch(<< "a/" >> \o file, << "b/" >> \o file,
            Hunk(1, Len(oldLines), 1, Len(newLines),
                 LinesOp("-", oldLines, 0, Len(oldLines)) \o AddLines(newLines)))

\* the target of a replace or delete with an oldContent: the line at index
\* line, else the first equal line of the window, else the block
LocateTarget(lines, line, oldContent) ==
  IF line < Len(lines) /\ lines[line + 1] = oldContent
  THEN [ok |-> TRUE, start |-> line, end |-> line]
  ELSE IF \E i \in Max(0, line - 5)..Min(Len(lines) - 1, line + 5) : lines[i + 1] = oldContent
  THEN [ok |-> TRUE,
        start |-> CHOOSE i \in Max(0, line - 5)..Min(Len(lines) - 1, line + 5) :
                    /\ lines[i + 1] = oldContent
                    /\ \A j \in Max(0, line - 5)..(i - 1) : lines[j + 1] # oldContent,
        end |-> CHOOSE i \in Max(0, line - 5)..Min(Len(lines) - 1, line + 5) :
                  /\ lines[i + 1] = oldContent
                  /\ \A j \in Max(0, line - 5)..(i - 1) : lines[j + 1] # oldContent]
  ELSE findBlockRange(lines, oldContent)

\* the hunk that replaces the lines start..end by newLines, between
\* patchStart and patchEnd
RangeHunk(lines, start, end, newLines, patchStart, patchEnd) ==
  Hunk(patchStart + 1, patchEnd - patchStart, patchStart + 1,
       patchEnd - patchStart - (end - start + 1) + Len(newLines),
       LinesOp(" ", lines, patchStart, start) \o LinesOp("-", lines, start, end + 1)
         \o AddLines(newLines) \o LinesOp(" ", lines, end + 1, patchEnd))

\* the patch of a replace or delete for the located range r, contextLines = 3
RangePatch(file, lines, line, r, newLines) ==
  IF ~r.ok THEN Threw("Could not find line matching")
  ELSE FilePatch(<< "a/" >> \o file, << "b/" >> \o file,
                 RangeHunk(lines, r.start, r.end, newLines,
                           Max(0, r.start - 3), Min(Len(lines), r.end + 3 + 1)))

\* generateReplacePatch(file, lines, line, oldContent, newContent)
generateReplacePatch(file, lines, line, oldContent, newContent) ==
  IF line < 0 \/ line > Len(lines) THEN Threw("Invalid line number")
  ELSE IF line = 0 /\ oldContent = << >>
  THEN generateFullFileReplacePatch(file, lines, SplitLines(newContent))
  ELSE IF oldContent # << >> /\ Trim(oldContent) = Trim(JoinLines(lines))
  THEN generateFullFileReplacePatch(file, lines, SplitLines(newContent))
  ELSE IF oldContent = << >>
  THEN RangePatch(file, lines, line, [ok |-> TRUE, start |-> line, end |-> line],
                  SplitLines(newContent))
  ELSE RangePatch(file, lines, line, LocateTarget(lines, line, oldContent), SplitLines(newContent))

\* generateDeletePatch(file, lines, line, oldContent)
generateDeletePatch(file, lines, line, oldContent) ==
  IF line < 0 \/ line > Len(lines) THEN Threw("Invalid line number")
  ELSE IF oldContent = << >>
  THEN RangePatch(file, lines, line, [ok |-> TRUE, start |-> line, end |-> line], << >>)
  ELSE RangePatch(file, lines, line, LocateTarget(lines, line, oldContent), << >>)

\* content || "", oldContent ?? ""
TextOr(field) == IF field.has THEN field.text ELSE << >>

\* line || 0, line ?? 0
LineOr0(line) == IF line.has THEN line.n ELSE 0

\* the switch of generateSinglePatch on the lines of the file read
CompileOn(instruction, lines, fileExists) ==
  CASE instruction.operation = "add" ->
         generateAddPatch(instruction.file, TextOr(instruction.content), fileExists)
    [] instruction.operation = "insert" ->
         generateInsertPatch(instruction.file, lines, LineOr0(instruction.line),
                             TextOr(instruction.content))
    [] instruction.operation = "replace" ->
         generateReplacePatch(instruction.file, lines, LineOr0(instruction.line),
                              TextOr(instruction.oldContent), TextOr(instruction.content))
    [] instruction.operation = "delete" ->
         generateDeletePatch(instruction.file, lines, LineOr0(instruction.line),
                             TextOr(instruction.oldContent))
    [] OTHER -> Threw("Unknown operation")

\* generateSinglePatch(instruction) on the file system f
generateSinglePatch(f, instruction) ==
  IF ~ReadFile(f, instruction.file).ok /\ instruction.operation # "add"
  THEN Threw("does not exist")
  ELSE CompileOn(instruction, SplitLines(ReadFile(f, instruction.file).text),
                 ReadFile(f, instruction.file).ok)

\* the result generate_patch returns
GenFailure(prefix, file, detail, applied) ==
  [success |-> FALSE, hasPatch |-> FALSE, patch |-> << >>,
   error |-> [prefix |-> prefix, file |-> file, detail |-> detail], applied |-> applied]

GenSuccess(text, applied) ==
  [success |-> TRUE, hasPatch |-> TRUE, patch |-> text,
   error |-> [prefix |-> "", file |-> << >>, detail |-> << >>], applied |-> applied]

NoGenResult == GenFailure("", << >>, << >>, << >>)

\* patches.join("\n")
UnifiedPatch(ps) == JoinLines([k \in 1..Len(ps) |-> PatchLinesText(ps[k])])

\* the validation of the generated text: parsePatch throws, or gives no patch
CheckParsed(parsed, text, applied) ==
  IF ~parsed.ok THEN GenFailure("Generated patch is malformed", << >>, << >>, applied)
  ELSE IF Len(parsed.list) = 0
  THEN GenFailure("Generated patch is invalid or empty", << >>, << >>, applied)
  ELSE GenSuccess(text, applied)

GenIdle ==
  /\ instructions = << >> /\ gpc = "idle" /\ gi = 0 /\ gpatches = << >>
  /\ gapplied = << >> /\ gresult = NoGenResult /\ greads = << >>

\* the validation loop: the first instruction with errors ends the call
GValidate ==
  /\ gpc = "validate"
  /\ IF \E k \in 1..Len(instructions) : validatePatchInstruction(instructions[k]) # << >>
     THEN LET k == CHOOSE j \in 1..Len(instructions) :
                     /\ validatePatchInstruction(instructions[j]) # << >>
                     /\ \A h \in 1..(j - 1) : validatePatchInstruction(instructions[h]) = << >>
          IN  /\ gresult' = GenFailure("Invalid instruction for", instructions[k].file,
                                       validatePatchInstruction(instructions[k]), gapplied)
              /\ gpc' = "returned"
              /\ UNCHANGED gi
     ELSE gpc' = "compile" /\ gi' = 1 /\ UNCHANGED gresult
  /\ UNCHANGED <<instructions, gpatches, gapplied, greads, editVars, fsVars, writeVars, diffVars, agentVars>>

\* one turn of the compile loop for the patch r of instruction gi
GCompiled(r) ==
  IF r.ok
  THEN /\ gpatches' = Append(gpatches, r)
       /\ gapplied' = Append(gapplied, instructions[gi].file)
       /\ gi' = gi + 1
       /\ UNCHANGED <<gpc, gresult>>
  ELSE /\ gresult' = GenFailure("Failed to generate patch for", instructions[gi].file,
                                << r.err >>, gapplied)
       /\ gpc' = "returned"
       /\ UNCHANGED <<gi, gpatches, gapplied>>

\* a compile loop that goes on to the next instruction when one throws
GCompileSkipping ==
  /\ gpc = "compile" /\ gi <= Len(instructions)
  /\ greads' = Append(greads, instructions[gi].file)
  /\ IF generateSinglePatch(fs, instructions[gi]).ok
     THEN GCompiled(generateSinglePatch(fs, instructions[gi]))
     ELSE gi' = gi + 1 /\ UNCHANGED <<gpc, gresult, gpatches, gapplied>>
  /\ UNCHANGED <<instructions, editVars, fsVars, writeVars, diffVars, agentVars>>

\* a compile loop that writes the content of the instruction to its file
GCompileWriting ==
  /\ gpc = "compile" /\ gi <= Len(instructions)
  /\ greads' = Append(greads, instructions[gi].file)
  /\ GCompiled(generateSinglePatch(fs, instructions[gi]))
  /\ fs' = IF generateSinglePatch(fs, instructions[gi]).ok
           THEN WriteFile(fs, instructions[gi].file, TextOr(instructions[gi].content)).fs
           ELSE fs
  /\ UNCHANGED <<instructions, fs0, written, editVars, writeVars, diffVars, agentVars>>

\* for (const instruction of instructions): generateSinglePatch reads the
\* file and compiles the instruction
GCompile ==
  /\ gpc = "compile" /\ gi <= Len(instructions)
  /\ greads' = Append(greads, instructions[gi].file)
  /\ GCompiled(generateSinglePatch(fs, instructions[gi]))
  /\ UNCHANGED <<instructions, editVars, fsVars, writeVars, diffVars, agentVars>>

\* after the loop: no patch, or the patches joined and parsed
GFinish ==
  /\ gpc = "compile" /\ gi > Len(instructions)
  /\ gresult' = IF gpatches = << >>
                THEN GenFailure("No patches were generated", << >>, << >>, gapplied)
                ELSE CheckParsed(parsePatch(UnifiedPatch(gpatches)), UnifiedPatch(gpatches), gapplied)
  /\ gpc' = "returned"
  /\ UNCHANGED <<instructions, gi, gpatches, gapplied, greads, editVars, fsVars, writeVars, diffVars, agentVars>>

NextGen == GValidate \/ GCompile \/ GFinish

\* the file the instructions are written against: eight lines, the first
\* and the last one equal, no newline at its end
W ==
  << "X", NL, "W1", NL, "W2", NL, "W3", NL, "W4", NL, "W5", NL, "W6", NL, "X" >>

\* the files generate_patch starts from: w holds W, f holds F1, g is missing
GenFs == [q \in {<< "w" >>, << "f" >>} |-> IF q = << "w" >> THEN FileEntry(W) ELSE FileEntry(F1)]

GenLines == {Absent} \cup {LineNo(n) : n \in {0, 1, 5, 6, 7, 8, 9}}

OldContents ==
  {Content(<< "X" >>), Content(<< "W1" >>), Content(<< "W1", NL >>),
   Content(<< "W6", NL, "X" >>), Content(<< "Z1" >>), Content(W), Content(W \o << NL >>),
   Content(<< NL, "W2" >>)}

\* the instructions on existing files that pass the validation
FileInstructions ==
  {Instruction(<< "w" >>, "insert", l, Content(c), Absent) :
     l \in GenLines, c \in {<< "N1" >>, << "N1", NL, "N2" >>}}
  \cup {Instruction(<< "f" >>, "insert", LineNo(n), Content(<< "N1" >>), Absent) : n \in {3, 4, 5}}
  \cup {Instruction(<< "w" >>, "replace", l, Content(<< "N1" >>), o) :
          l \in GenLines, o \in OldContents \cup {Absent}}
  \cup {Instruction(<< "w" >>, "replace", LineNo(8), Content(<< "N1", NL, "N2" >>), Absent)}
  \cup {Instruction(<< "w" >>, "delete", l, Absent, o) : l \in GenLines, o \in OldContents}

\* instructions that lack a field, name no file or a missing one, have an
\* unknown operation or a negative line, and two that compile
OtherInstructions ==
  {Instruction(<< "g" >>, "add", Absent, Content(<< "N1", NL, "N2" >>), Absent),
   Instruction(<< "w" >>, "add", Absent, Content(<< "N1" >>), Absent),
   Instruction(<< "g" >>, "insert", LineNo(0), Content(<< "N1" >>), Absent),
   Instruction(<< "g" >>, "add", Absent, Absent, Absent),
   Instruction(<< "w" >>, "replace", LineNo(1), Absent, Absent),
   Instruction(<< "w" >>, "insert", LineNo(1), Content(<< >>), Absent),
   Instruction(<< "w" >>, "delete", LineNo(1), Absent, Absent),
   Instruction(<< >>, "insert", LineNo(0), Content(<< "N1" >>), Absent),
   Instruction(<< "w" >>, "rename", LineNo(1), Content(<< "N1" >>), Absent),
   Instruction(<< "w" >>, "", LineNo(1), Content(<< "N1" >>), Absent),
   Instruction(<< "w" >>, "insert", LineNo(-1), Content(<< "N1" >>), Absent),
   Instruction(<< "w" >>, "insert", LineNo(1), Content(<< "N1" >>), Absent)}

\* the batches: up to MaxInstructions instructions, any but the last of them
\* from OtherInstructions
Batches ==
  SeqUpTo(OtherInstructions, MaxInstructions)
    \cup {Append(b, i) : b \in SeqUpTo(OtherInstructions, MaxInstructions - 1),
                         i \in FileInstructions}

\* ------------------------------------------------------------------------
\* makeAICall (ai/api-calls.ts)
\* ------------------------------------------------------------------------

\* the largest maxRetries of a call
MaxRetries == 6

\* What an attempt ends in: the object generateObject resolves to, or a
\* rejection of the race of generateObject and the timeout.  isNoObject: the
\* error is a NoObjectGeneratedError; hasText: it carries the generated
\* text; repairs: repairMalformedJSON, JSON.parse and schema.parse accept
\* that text
Outcome(ok, error, isNoObject, hasText, repairs) ==
  [ok |-> ok, error |-> error, isNoObject |-> isNoObject, hasText |-> hasText,
   repairs |-> repairs]

Resolved == Outcome(TRUE, "", FALSE, FALSE, FALSE)

Rejected(error) == Outcome(FALSE, error, FALSE, FALSE, FALSE)

NoObjectGenerated(hasText, repairs) == Outcome(FALSE, "no object generated", TRUE, hasText, repairs)

Outcomes ==
  {Resolved, Rejected("API error"), Rejected("API call timeout"),
   NoObjectGenerated(FALSE, FALSE), NoObjectGenerated(TRUE, FALSE),
   NoObjectGenerated(TRUE, TRUE)}

\* what makeAICall returns (from the object of an attempt, or from the
\* repaired text of its error) or throws (the error of an attempt; attempt 0
\* for the error made after the loop)
CallResult(kind, of, error) == [kind |-> kind, of |-> of, error |-> error]

NoCallResult == CallResult("none", 0, "")

RECURSIVE Pow2(_)
\* Math.pow(2, n)
Pow2(n) == IF n <= 0 THEN 1 ELSE 2 * Pow2(n - 1)

\* a backoff without its ceiling
waitTimeUncapped(n) == 1000 * Pow2(n - 1)

\* Math.min(1000 * Math.pow(2, attempt - 1), 10000)
waitTime(n) == Min(1000 * Pow2(n - 1), 10000)

CallIdle ==
  /\ maxRetries = 0 /\ provider = "" /\ attempt = 0 /\ cpc = "idle" /\ tries = << >> /\ waits = << >>
  /\ cresult = NoCallResult

\* new AIClient({provider, model}) or AIClient.fromEnvironment(provider,
\* model), which throws when no provider is given or detected
CClient ==
  /\ cpc = "client"
  /\ IF provider = ""
     THEN cpc' = "thrown" /\ cresult' = CallResult("error", 0, "No AI provider detected")
     ELSE cpc' = "loop" /\ UNCHANGED cresult
  /\ UNCHANGED <<maxRetries, provider, attempt, tries, waits>>
  /\ UNCHANGED <<maxSteps, maxWrites, maxCmds, isComplexTask, step, writes, cmds,
                 transcript, apc, aresult, responses, calls,
                 editVars, fsVars, writeVars, diffVars, genVars>>

\* the test of the for loop; after the loop: throw new Error("All retry
\* attempts failed")
CLoop ==
  /\ cpc = "loop"
  /\ IF attempt <= maxRetries
     THEN cpc' = "call" /\ UNCHANGED cresult
     ELSE cpc' = "thrown" /\ cresult' = CallResult("error", 0, "All retry attempts failed")
  /\ UNCHANGED <<maxRetries, provider, attempt, tries, waits>>
  /\ UNCHANGED <<maxSteps, maxWrites, maxCmds, isComplexTask, step, writes, cmds,
                 transcript, apc, aresult, responses, calls,
                 editVars, fsVars, writeVars, diffVars, genVars>>

\* the try block: await Promise.race([apiCallPromise, timeoutPromise]) and
\* the return of the response
CCall ==
  /\ cpc = "call"
  /\ \E o \in Outcomes :
       /\ tries' = Append(tries, o)
       /\ IF o.ok
          THEN cpc' = "returned" /\ cresult' = CallResult("response", attempt, "")
          ELSE cpc' = "caught" /\ UNCHANGED cresult
  /\ UNCHANGED <<maxRetries, provider, attempt, waits>>
  /\ UNCHANGED <<maxSteps, maxWrites, maxCmds, isComplexTask, step, writes, cmds,
                 transcript, apc, aresult, responses, calls,
                 editVars, fsVars, writeVars, diffVars, genVars>>

\* the catch block for the error of the attempt just made: the fallback on
\* the generated text at the last attempt, the rethrow at the last attempt,
\* else the computation of waitTime
CCatch ==
  /\ cpc = "caught"
  /\ IF /\ tries[Len(tries)].isNoObject /\ tries[Len(tries)].hasText
        /\ attempt = maxRetries /\ tries[Len(tries)].repairs
     THEN /\ cpc' = "returned" /\ cresult' = CallResult("repaired", attempt, "")
          /\ UNCHANGED waits
     ELSE IF attempt = maxRetries
     THEN /\ cpc' = "thrown"
          /\ cresult' = CallResult("error", attempt, tries[Len(tries)].error)
          /\ UNCHANGED waits
     ELSE /\ cpc' = "wait" /\ waits' = Append(waits, waitTime(attempt))
          /\ UNCHANGED cresult
  /\ UNCHANGED <<maxRetries, provider, attempt, tries>>
  /\ UNCHANGED <<maxSteps, maxWrites, maxCmds, isComplexTask, step, writes, cmds,
                 transcript, apc, aresult, responses, calls,
                 editVars, fsVars, writeVars, diffVars, genVars>>

\* await new Promise(resolve => setTimeout(resolve, waitTime)), attempt++
CWait ==
  /\ cpc = "wait"
  /\ attempt' = attempt + 1 /\ cpc' = "loop"
  /\ UNCHANGED <<maxRetries, provider, tries, waits, cresult>>
  /\ UNCHANGED <<maxSteps, maxWrites, maxCmds, isComplexTask, step, writes, cmds,
                 transcript, apc, aresult, responses, calls,
                 editVars, fsVars, writeVars, diffVars, genVars>>

NextCall == CClient \/ CLoop \/ CCall \/ CCatch \/ CWait

\* ------------------------------------------------------------------------
\* runCodingAgent (core/agent.ts) and the handlers it calls (handlers.ts)
\* ------------------------------------------------------------------------

\* the largest maxSteps, maxWrites and maxCmds of a run
MaxSteps == 3

MaxWrites == 1

MaxCmds == 1

\* what makeAICallWithSchema gives at a step: it throws after its retries,
\* or it returns a content.  json = FALSE is a content JSON.parse rejects;
\* else the content is an object with the decision at its top level or
\* (nested) under "properties".  action = "" is no action, hasInput is a
\* truthy tool_input, submission the submission under tool_input.patch, test a
\* run_cmd of the test command
Response(outcome, json, nested, action, hasInput, submission, test) ==
  [outcome |-> outcome, json |-> json, nested |-> nested, action |-> action,
   hasInput |-> hasInput, sub |-> submission, test |-> test]

ModelThrows == Response("throws", FALSE, FALSE, "", FALSE, << >>, FALSE)

Unparsable == Response("content", FALSE, FALSE, "", FALSE, << >>, FALSE)

Parsed(action, hasInput, nested) == Response("content", TRUE, nested, action, hasInput, << >>, FALSE)

\* a decision: the action and what its handler reads of tool_input
Decision(action, submission, test) == [action |-> action, sub |-> submission, test |-> test]

FinalAnswer == Decision("final_answer", << >>, FALSE)

validActions ==
  {"read_files", "search_repo", "write_patch", "run_cmd", "evaluate_work", "create_plan",
   "analyze_project", "final_answer"}

\* validateDecision(parsed) is not null
validateDecision(action, hasInput) ==
  /\ action # "" /\ action \in validActions
  /\ action = "final_answer" \/ hasInput

\* a parse that turns a content that is no JSON into a read_files decision
DecisionOfOrRead(r) ==
  IF ~r.json THEN Decision("read_files", << >>, FALSE)
  ELSE IF r.nested /\ r.action # ""
  THEN (IF validateDecision(r.action, TRUE) THEN Decision(r.action, r.sub, r.test) ELSE FinalAnswer)
  ELSE IF ~r.nested /\ validateDecision(r.action, r.hasInput)
  THEN Decision(r.action, r.sub, r.test)
  ELSE FinalAnswer

\* the decision of a step from the content r: a content that does not
\* parse, and a decision that does not validate, become final_answer.  A
\* decision under "properties" gets tool_input || {}
DecisionOf(r) ==
  IF ~r.json THEN FinalAnswer
  ELSE IF r.nested /\ r.action # ""
  THEN (IF validateDecision(r.action, TRUE) THEN Decision(r.action, r.sub, r.test) ELSE FinalAnswer)
  ELSE IF ~r.nested /\ validateDecision(r.action, r.hasInput)
  THEN Decision(r.action, r.sub, r.test)
  ELSE FinalAnswer

\* the messages a handler without a cap pushes, and the message of the
\* branch after the last handler
ToolMessages(action) ==
  CASE action = "read_files" -> << "read_files:", "file:" >>
    [] action = "search_repo" -> << "search_repo:" >>
    [] action = "evaluate_work" -> << "evaluate_work:", "evaluation_summary:" >>
    [] action = "create_plan" -> << "create_plan:", "plan_summary:" >>
    [] action = "analyze_project" -> << "analyze_project:", "analysis_summary:" >>
    [] OTHER -> << "ERROR: Unknown action" >>

\* the tool a handler without a cap runs
ToolCalls(s, action) ==
  IF action \in {"read_files", "search_repo", "evaluate_work", "create_plan", "analyze_project"}
  THEN << << s, action >> >> ELSE << >>

AgentResult(steps, message) == [steps |-> steps, message |-> message]

NoAgentResult == AgentResult(0, "")

\* the patches the model submits: a diff for f, two full-file blocks (g and
\* f), a block for the directory d, and no patch
AgentSubs ==
  { << DiffSection(<< "f" >>, << hIns >>) >>,
    << BlockSection(<< "g" >>, << "N1", NL >>, FALSE, TRUE),
       BlockSection(<< "f" >>, << "N2", NL >>, FALSE, TRUE) >>,
    << BlockSection(<< "d" >>, << "N1", NL >>, FALSE, TRUE) >>,
    << >> }

\* the contents the model returns
Responses ==
  { Unparsable, Parsed("", FALSE, FALSE), Parsed("final_answer", FALSE, FALSE),
    Parsed("foo", TRUE, FALSE), Parsed("generate_patch", TRUE, FALSE),
    Parsed("read_files", FALSE, FALSE), Parsed("read_files", FALSE, TRUE) }
  \cup { Parsed(a, TRUE, FALSE) :
           a \in {"read_files", "search_repo", "evaluate_work", "create_plan", "analyze_project"} }
  \cup { Response("content", TRUE, FALSE, "write_patch", TRUE, s, FALSE) : s \in AgentSubs }
  \cup { Response("content", TRUE, FALSE, "run_cmd", TRUE, << >>, t) : t \in BOOLEAN }

\* the files a run starts from: f holds F1, d is a directory
AgentFs == [q \in {<< "f" >>, << "d" >>} |-> IF q = << "f" >> THEN FileEntry(F1) ELSE DirEntry]

\* runCodingAgent is not running
LoopIdle ==
  /\ maxSteps = 0 /\ maxWrites = 0 /\ maxCmds = 0 /\ isComplexTask = FALSE
  /\ step = 0 /\ writes = 0 /\ cmds = 0 /\ transcript = << >> /\ apc = "idle"
  /\ aresult = NoAgentResult /\ responses = << >> /\ calls = << >>

AgentIdle == LoopIdle /\ CallIdle

agentInputs == <<maxSteps, maxWrites, maxCmds, isComplexTask>>

\* the planning phase: handleAnalyzeProject, and handleCreatePlan for a
\* complex task
APlan ==
  /\ apc = "plan"
  /\ transcript' = transcript \o ToolMessages("analyze_project")
                     \o (IF isComplexTask THEN ToolMessages("create_plan") ELSE << >>)
  /\ calls' = << << 0, "analyze_project" >> >>
                \o (IF isComplexTask THEN << << 0, "create_plan" >> >> ELSE << >>)
  /\ step' = 1 /\ apc' = "ask"
  /\ UNCHANGED <<agentInputs, callVars, writes, cmds, aresult, responses,
                 editVars, fsVars, writeVars, diffVars, genVars>>

\* an end of the loop that reports the loop counter
AMaxStepsCounter ==
  /\ apc = "ask" /\ step > maxSteps
  /\ aresult' = AgentResult(step, "Max steps reached without finalization.")
  /\ apc' = "returned"
  /\ UNCHANGED <<agentInputs, callVars, step, writes, cmds, transcript, responses, calls,
                 editVars, fsVars, writeVars, diffVars, genVars>>

\* the end of the loop
AMaxSteps ==
  /\ apc = "ask" /\ step > maxSteps
  /\ aresult' = AgentResult(maxSteps, "Max steps reached without finalization.")
  /\ apc' = "returned"
  /\ UNCHANGED <<agentInputs, callVars, step, writes, cmds, transcript, responses, calls,
                 editVars, fsVars, writeVars, diffVars, genVars>>

\* makeAICallWithSchema throws after its retries
ACallFails ==
  /\ apc = "ask" /\ step <= maxSteps
  /\ responses' = Append(responses, ModelThrows)
  /\ aresult' = AgentResult(step, "AI API call failed at step")
  /\ apc' = "returned"
  /\ UNCHANGED <<agentInputs, callVars, step, writes, cmds, transcript, calls,
                 editVars, fsVars, writeVars, diffVars, genVars>>

\* a step whose decision is final_answer: the summary call, which may throw
AFinal ==
  /\ apc = "ask" /\ step <= maxSteps
  /\ \E r \in Responses, summarized \in BOOLEAN :
       /\ DecisionOf(r).action = "final_answer"
       /\ responses' = Append(responses, r)
       /\ aresult' = AgentResult(step, IF summarized THEN "summary"
                                       ELSE "Task completed. Summary generation failed")
  /\ apc' = "returned"
  /\ UNCHANGED <<agentInputs, callVars, step, writes, cmds, transcript, calls,
                 editVars, fsVars, writeVars, diffVars, genVars>>

\* a step whose decision goes to a handler without a cap, or to none
ATool ==
  /\ apc = "ask" /\ step <= maxSteps
  /\ \E r \in Responses :
       /\ DecisionOf(r).action \notin {"final_answer", "write_patch", "run_cmd"}
       /\ responses' = Append(responses, r)
       /\ transcript' = transcript \o ToolMessages(DecisionOf(r).action)
       /\ calls' = calls \o ToolCalls(step, DecisionOf(r).action)
  /\ step' = step + 1
  /\ UNCHANGED <<agentInputs, callVars, writes, cmds, apc, aresult,
                 editVars, fsVars, writeVars, diffVars, genVars>>

\* a handleWritePatch that refuses only above the cap
AWritePatchAboveCap ==
  /\ apc = "ask" /\ step <= maxSteps
  /\ \E r \in Responses :
       /\ DecisionOf(r).action = "write_patch"
       /\ responses' = Append(responses, r)
       /\ IF writes > maxWrites
          THEN /\ transcript' = Append(transcript, "write_patch:ERROR: write cap exceeded")
               /\ step' = step + 1
               /\ UNCHANGED <<apc, calls, writeVars>>
          ELSE /\ sub' = DecisionOf(r).sub /\ patch' = Render(DecisionOf(r).sub)
               /\ unescapedPatch' = << >> /\ parsedPatches' = << >> /\ blocks' = << >>
               /\ wi' = 0 /\ replaced' = << >> /\ wpc' = "start" /\ wresult' = NoResult
               /\ calls' = Append(calls, << step, "write_patch" >>)
               /\ apc' = "write"
               /\ UNCHANGED <<step, transcript>>
  /\ UNCHANGED <<agentInputs, callVars, writes, cmds, aresult, editVars, fsVars, diffVars, genVars>>

\* handleWritePatch up to the call of write_patch: the cap, or the call
\* with String(decision.tool_input.patch || "")
AWritePatch ==
  /\ apc = "ask" /\ step <= maxSteps
  /\ \E r \in Responses :
       /\ DecisionOf(r).action = "write_patch"
       /\ responses' = Append(responses, r)
       /\ IF writes >= maxWrites
          THEN /\ transcript' = Append(transcript, "write_patch:ERROR: write cap exceeded")
               /\ step' = step + 1
               /\ UNCHANGED <<apc, calls, writeVars>>
          ELSE /\ sub' = DecisionOf(r).sub /\ patch' = Render(DecisionOf(r).sub)
               /\ unescapedPatch' = << >> /\ parsedPatches' = << >> /\ blocks' = << >>
               /\ wi' = 0 /\ replaced' = << >> /\ wpc' = "start" /\ wresult' = NoResult
               /\ calls' = Append(calls, << step, "write_patch" >>)
               /\ apc' = "write"
               /\ UNCHANGED <<step, transcript>>
  /\ UNCHANGED <<agentInputs, callVars, writes, cmds, aresult, editVars, fsVars, diffVars, genVars>>

\* handleWritePatch after write_patch returned
AWriteReturned ==
  /\ apc = "write" /\ wpc = "returned"
  /\ writes' = writes + 1
  /\ transcript' = Append(transcript, "write_patch:")
  /\ step' = step + 1 /\ apc' = "ask"
  /\ UNCHANGED <<agentInputs, callVars, cmds, aresult, responses, calls,
                 editVars, fsVars, writeVars, diffVars, genVars>>

\* write_patch rejected: nothing in handleWritePatch or runCodingAgent
\* catches it
AWriteRaised ==
  /\ apc = "write" /\ wpc = "raised"
  /\ apc' = "rejected"
  /\ UNCHANGED <<agentInputs, callVars, step, writes, cmds, transcript, aresult, responses, calls,
                 editVars, fsVars, writeVars, diffVars, genVars>>

\* handleRunCmd: the cap, or run_cmd, whose outcome is ok or not
ARunCmd ==
  /\ apc = "ask" /\ step <= maxSteps
  /\ \E r \in Responses, ok \in BOOLEAN :
       /\ DecisionOf(r).action = "run_cmd"
       /\ responses' = Append(responses, r)
       /\ IF cmds >= maxCmds
          THEN /\ transcript' = Append(transcript, "run_cmd:ERROR: command cap exceeded")
               /\ UNCHANGED <<cmds, calls>>
          ELSE /\ cmds' = cmds + 1
               /\ calls' = Append(calls, << step, "run_cmd" >>)
               /\ transcript' = transcript \o << "run_cmd:" >>
                    \o (IF DecisionOf(r).test /\ ok THEN << "Tests passed." >> ELSE << >>)
  /\ step' = step + 1
  /\ UNCHANGED <<agentInputs, callVars, writes, apc, aresult, editVars, fsVars, writeVars, diffVars, genVars>>

\* write_patch runs while handleWritePatch awaits it
AWriting == apc = "write" /\ NextWrite

NextAgent ==
  \/ APlan \/ AMaxSteps \/ ACallFails \/ AFinal \/ ATool \/ AWritePatch \/ AWriting
  \/ AWriteReturned \/ AWriteRaised \/ ARunCmd

FsIdle ==
  /\ fs = [q \in {<< "f" >>} |-> FileEntry(F1)] /\ fs0 = fs /\ written = << >>

InitEdits == EditsInit /\ FsIdle /\ WriteIdle /\ DiffIdle /\ GenIdle /\ AgentIdle

SpecEdits == InitEdits /\ [][NextEdits]_vars

\* write_patch(patch) is called with the text of a submission
InitWrite ==
  /\ EditsIdle /\ DiffIdle /\ GenIdle /\ AgentIdle
  /\ fs \in InitialFs /\ fs0 = fs /\ written = << >>
  /\ sub \in SeqUpTo(Sections, MaxSections)
  /\ patch = Render(sub)
  /\ unescapedPatch = << >> /\ parsedPatches = << >> /\ blocks = << >>
  /\ wi = 0 /\ replaced = << >> /\ wpc = "start" /\ wresult = NoResult

SpecWrite == InitWrite /\ [][NextWrite]_vars

\* planToUnifiedDiffs(plan, readFileFn) is called
InitDiff ==
  /\ EditsIdle /\ FsIdle /\ WriteIdle /\ GenIdle /\ AgentIdle
  /\ plan \in SeqUpTo(Changes, MaxChanges)
  /\ dwork = [k \in 1..Len(plan) |-> Todo]
  /\ dpc = "run" /\ dresult = << >>

SpecDiff == InitDiff /\ [][NextDiff]_vars

\* generate_patch(instructions) is called
InitGen ==
  /\ EditsIdle /\ WriteIdle /\ DiffIdle /\ AgentIdle
  /\ fs = GenFs /\ fs0 = fs /\ written = << >>
  /\ instructions \in Batches
  /\ gpc = "validate" /\ gi = 0 /\ gpatches = << >> /\ gapplied = << >>
  /\ gresult = NoGenResult /\ greads = << >>

SpecGen == InitGen /\ [][NextGen]_vars

\* runCodingAgent(userGoal, opts) is called
InitAgent ==
  /\ EditsIdle /\ WriteIdle /\ DiffIdle /\ GenIdle
  /\ fs = AgentFs /\ fs0 = fs /\ written = << >>
  /\ maxSteps \in {0, MaxSteps}
  /\ \E caps \in {<< 0, 0 >>, << MaxWrites, MaxCmds >>} :
       maxWrites = caps[1] /\ maxCmds = caps[2]
  /\ isComplexTask \in BOOLEAN
  /\ step = 0 /\ writes = 0 /\ cmds = 0
  /\ transcript = << "system", "user" >> /\ apc = "plan"
  /\ aresult = NoAgentResult /\ responses = << >> /\ calls = << >>
  /\ CallIdle

SpecAgent == InitAgent /\ [][NextAgent]_vars

\* makeAICall(messages, schema, logConfig, {maxRetries}) is called
InitCall ==
  /\ EditsIdle /\ FsIdle /\ WriteIdle /\ DiffIdle /\ GenIdle /\ LoopIdle
  /\ maxRetries \in 0..MaxRetries /\ provider \in {"", "openai"}
  /\ attempt = 1 /\ cpc = "client" /\ tries = << >> /\ waits = << >>
  /\ cresult = NoCallResult

SpecCall == InitCall /\ [][NextCall]_vars

\* the steps of runCodingAgent and handleWritePatch themselves
AgentMoves ==
  \/ APlan \/ AMaxSteps \/ ACallFails \/ AFinal \/ ATool \/ AWritePatch
  \/ AWriteReturned \/ AWriteRaised \/ ARunCmd

\* write_patch is running: AWriting is enabled in exactly these states
WriteRunning == apc = "write" /\ wpc \in {"start", "diff", "full", "block"}

\* a step of write_patch: each one moves wpc or wi
WriteMoves == WriteRunning /\ << wpc', wi' >> # << wpc, wi >>

\* every awaited call settles and the loop goes on: weak fairness of the
\* steps of the agent and of AWriting, the latter written with the state
\* predicate that equals its ENABLED
SpecAgentLive ==
  SpecAgent /\ WF_vars(AgentMoves) /\ ([]<>~WriteRunning \/ []<><<WriteMoves>>_vars)

\* ------------------------------------------------------------------------
\* Claims on applyEditsToText
\* ------------------------------------------------------------------------

\* the orders of 1..n that list the edits cs ascending by start
AscendingOrders(cs) ==
  {p \in [1..Len(cs) -> 1..Len(cs)] :
     /\ \A i, j \in 1..Len(cs) : i # j => p[i] # p[j]
     /\ \A i, j \in 1..Len(cs) : i < j => cs[p[i]].start <= cs[p[j]].start}

RECURSIVE Rebuild(_, _, _, _, _)
\* text rebuilt left to right in its own offsets: the characters between
\* the edits are copied, each range is replaced by its edit's text
Rebuild(text, cs, p, k, cursor) ==
  IF k > Len(cs) THEN SliceFrom(text, cursor)
  ELSE LET c == cs[p[k]]
       IN  Slice(text, cursor, c.start) \o c.text
             \o Rebuild(text, cs, p, k + 1, Max(cursor, c.end))

\* the texts in which every range of cs is replaced by its edit's text
\* (edits at one offset in either order)
EditedTexts(text, cs) == {Rebuild(text, cs, p, 1, 0) : p \in AscendingOrders(cs)}

\* C2: an accepted edit list yields the original with each resolved range
\* replaced by its edit's text, every other character unchanged, and every
\* splice is performed where no earlier splice has shifted the text
C2_SpliceInOriginalOffsets ==
  /\ (epc = "returned") => result \in EditedTexts(original, concrete)
  /\ (epc = "splice" /\ sorted # << >>) =>
        Slice(result, 0, Head(sorted).end) = Slice(original, 0, Head(sorted).end)

RequestedN(e) == IF e.hasOcc THEN e.occurrence ELSE 1

\* find stands in text at 0-based offset p, and p is its n-th match in a scan
\* from the left in which every match but the first is looked for from the
\* end of the match before it
NthMatchAt(text, find, n, p) ==
  /\ n >= 1
  /\ \E ps \in [1..n -> 0..Len(text)] :
       /\ ps[n] = p
       /\ \A k \in 1..n :
            /\ MatchesAt(text, find, ps[k])
            /\ \A i \in (IF k = 1 THEN 0 ELSE ps[k - 1] + Len(find))..(ps[k] - 1) :
                 ~MatchesAt(text, find, i)
            /\ k > 1 => ps[k] >= ps[k - 1] + Len(find)

\* text with the match of e.find at offset p replaced, removed or followed by
\* the edit's text, nothing else changed
ActedOn(text, e, p) ==
  CASE e.kind = "replace" ->
         SubSeq(text, 1, p) \o e.text \o SubSeq(text, p + Len(e.find) + 1, Len(text))
    [] e.kind = "delete" ->
         SubSeq(text, 1, p) \o SubSeq(text, p + Len(e.find) + 1, Len(text))
    [] OTHER ->
         SubSeq(text, 1, p + Len(e.find)) \o e.text \o SubSeq(text, p + Len(e.find) + 1, Len(text))

\* the call is made with one replace, insertAfter or delete edit
C13Case == Len(edits) = 1 /\ edits[1].kind # "replaceRange"

\* C13: a replace, insertAfter or delete edit with occurrence N (1 when
\* omitted) acts on the N-th match of find, counted from 1 in a scan that
\* resumes after the end of the previous match: that match is replaced,
\* removed or followed by the inserted text and all other text is unchanged
C13_NthMatchEdited ==
  (C13Case /\ epc \in {"returned", "thrown"}) =>
    \A p \in 0..Len(original) :
      NthMatchAt(original, edits[1].find, RequestedN(edits[1]), p) =>
        epc = "returned" /\ result = ActedOn(original, edits[1], p)

\* the second "aa" of "aaaa" was replaced: it starts where the first ends
C13_Witness ==
  /\ C13Case /\ epc = "returned"
  /\ edits[1].find = << "a", "a" >> /\ RequestedN(edits[1]) = 2
  /\ result = << "a", "a", "X" >>

\* edit e cannot be resolved on text: its occurrence of find does not exist,
\* or its range does not satisfy 0 <= start <= end <= length
Unresolvable(text, e) ==
  IF e.kind = "replaceRange"
  THEN ~(0 <= e.start /\ e.start <= e.end /\ e.end <= Len(text))
  ELSE ~\E p \in 0..Len(text) : NthMatchAt(text, e.find, RequestedN(e), p)

\* C14: when an edit of the list cannot be resolved the call throws "Token
\* not found" or "Invalid replaceRange" and never produces a text; the edit
\* is not skipped
C14_UnresolvableFails ==
  (\E k \in 1..Len(edits) : Unresolvable(original, edits[k])) =>
    /\ epc \in {"resolve", "thrown"} /\ result = << >>
    /\ epc = "thrown" =>
         /\ eerr \in {"Token not found", "Invalid replaceRange"}
         /\ Unresolvable(original, edits[Len(concrete) + 1])
         /\ eerr = "Invalid replaceRange" <=> edits[Len(concrete) + 1].kind = "replaceRange"

\* the call threw on its second edit, after it had resolved the first
C14_Witness ==
  /\ epc = "thrown" /\ Len(edits) = 2 /\ Len(concrete) = 1
  /\ Unresolvable(original, edits[2]) /\ ~Unresolvable(original, edits[1])

\* ------------------------------------------------------------------------
\* Claims on write_patch
\* ------------------------------------------------------------------------

\* the call has ended: it returned a result or it raised
Done == wpc \in {"returned", "raised"}

Returned == wpc = "returned"

HasEscape(text) == \E k \in 1..Len(text) : text[k] = BS

IsOld(l) == l.op \in {" ", "-"}

IsNew(l) == l.op \in {" ", "+"}

TextsOf(body) == [k \in 1..Len(body) |-> body[k].text]

\* the lines of a text that ends with a newline
FileLinesOf(text) == SubSeq(SplitLines(text), 1, Len(SplitLines(text)) - 1)

\* the context and removed lines of hunk h are the lines of the file at the
\* position its header gives
HunkMatchesAt(lines, h) ==
  /\ h.oldLines = Len(SelectSeq(h.body, IsOld))
  /\ IF h.oldLines = 0 THEN h.oldStart \in 0..Len(lines)
     ELSE /\ h.oldStart >= 1 /\ h.oldStart + h.oldLines - 1 <= Len(lines)
          /\ SubSeq(lines, h.oldStart, h.oldStart + h.oldLines - 1) = TextsOf(SelectSeq(h.body, IsOld))

\* lines with the old side of h replaced by its new side
ExpectedHunk(lines, h) ==
  IF h.oldLines = 0
  THEN SubSeq(lines, 1, h.oldStart) \o TextsOf(SelectSeq(h.body, IsNew))
         \o SubSeq(lines, h.oldStart + 1, Len(lines))
  ELSE SubSeq(lines, 1, h.oldStart - 1) \o TextsOf(SelectSeq(h.body, IsNew))
         \o SubSeq(lines, h.oldStart + h.oldLines, Len(lines))

RECURSIVE ExpectedLines(_, _)
\* the hunks applied from the last to the first, so that every header
\* counts in the lines of the original file
ExpectedLines(lines, hunks) ==
  IF hunks = << >> THEN lines
  ELSE ExpectedLines(ExpectedHunk(lines, hunks[Len(hunks)]), SubSeq(hunks, 1, Len(hunks) - 1))

ExpectedText(text, hunks) == JoinLines(ExpectedLines(FileLinesOf(text), hunks)) \o << NL >>

\* the hunks are listed from the top of the file to its end, as a unified
\* diff lists them
HunksAscend(hunks) ==
  \A j, k \in 1..Len(hunks) : j < k => hunks[j].oldStart < hunks[k].oldStart

\* the submission is one diff for an existing file, and every hunk matches
\* the file where its header says
C4Case ==
  /\ Len(sub) = 1 /\ sub[1].kind = "diff" /\ IsFile(fs0, sub[1].file)
  /\ HunksAscend(sub[1].hunks)
  /\ \A k \in 1..Len(sub[1].hunks) :
       HunkMatchesAt(FileLinesOf(fs0[sub[1].file].text), sub[1].hunks[k])

C4Holds ==
  /\ Returned
  /\ fs[sub[1].file] = FileEntry(ExpectedText(fs0[sub[1].file].text, sub[1].hunks))
  /\ wresult.applied = << sub[1].file >> /\ wresult.mode = "diff"

C5Case ==
  Len(sub) >= 1 /\ \A k \in 1..Len(sub) : sub[k].kind = "block" /\ sub[k].end

\* no later block names the file of block k
LastFor(k) == \A j \in (k + 1)..Len(sub) : sub[j].file # sub[k].file

C5Holds ==
  /\ Returned /\ wresult.mode = "full-file"
  /\ wresult.applied = [k \in 1..Len(sub) |-> sub[k].file]
  /\ \A k \in 1..Len(sub) : LastFor(k) => fs[sub[k].file] = FileEntry(sub[k].content)

Writable(f, file) ==
  ~IsDir(f, file) /\ (Dirname(file) # << "." >> => ~IsFile(f, Dirname(file)))

C6Case == \A k \in 1..Len(sub) : sub[k].kind \in {"junk", "hunks"}

\* C6: for such a text write_patch returns applied = [], mode = "none" and
\* an error text, and at no time creates or changes a file or a directory
C6_UnrecognizedIsNone ==
  C6Case =>
    /\ fs = fs0 /\ wpc # "raised"
    /\ Returned => /\ wresult.applied = << >> /\ wresult.mode = "none"
                   /\ wresult.error # ""

C6_Witness == Returned /\ C6Case /\ Len(sub) = 2 /\ sub[1].kind # sub[2].kind

\* C7 as stated: write_patch never raises; every failure is reported through
\* the result it returns
C7_NeverRaises == wpc # "raised"

\* the paths written by the diff path and by the full-file path, in order
RECURSIVE WrittenBy(_, _)
WrittenBy(ws, mode) ==
  IF ws = << >> THEN << >>
  ELSE (IF ws[1][2] = mode THEN << ws[1][1] >> ELSE << >>) \o WrittenBy(Tail(ws), mode)

\* C8 as stated: the returned mode is "diff" exactly when the diff path wrote
\* a file, "full-file" exactly when it wrote none and a block was written,
\* "none" exactly when the call wrote no file
C8_ModeTellsWriter ==
  Returned =>
    /\ wresult.mode = "diff" <=> WrittenBy(written, "diff") # << >>
    /\ wresult.mode = "full-file" <=>
         (WrittenBy(written, "diff") = << >> /\ WrittenBy(written, "full-file") # << >>)
    /\ wresult.mode = "none" <=> written = << >>

\* the submission is made of diffs for several files
C9Case ==
  /\ Len(sub) >= 2 /\ \A k \in 1..Len(sub) : sub[k].kind = "diff"
  /\ \A j, k \in 1..Len(sub) : j # k => sub[j].file # sub[k].file

\* C9 as stated: applied lists exactly the files the call wrote, and a file
\* whose patch cannot be applied does not keep the other files, whose hunks
\* match, from being patched
C9_AppliedIsWritten ==
  (Done /\ C9Case) =>
    /\ Returned
    /\ wresult.applied = [k \in 1..Len(written) |-> written[k][1]]
    /\ \A k \in 1..Len(sub) :
         (/\ IsFile(fs0, sub[k].file) /\ sub[k].hunks # << >>
          /\ \A h \in 1..Len(sub[k].hunks) :
               HunkMatchesAt(FileLinesOf(fs0[sub[k].file].text), sub[k].hunks[h]))
           => \E w \in 1..Len(written) : written[w][1] = sub[k].file

\* the patch has hunks, applyPatch fails on the target's text, and the
\* manual fallback skips every hunk, its start lying past the last line
NoHunkApplies(parsedPatch) ==
  /\ parsedPatch.hunks # << >>
  /\ ~applyPatch(ReadFile(fs0, PatchFile(parsedPatch)).text, parsedPatch).ok
  /\ \A h \in 1..Len(parsedPatch.hunks) :
       parsedPatch.hunks[h].oldStart - 1
         >= Len(SplitLines(ReadFile(fs0, PatchFile(parsedPatch)).text))

C10Case ==
  /\ Len(sub) >= 1 /\ \A k \in 1..Len(sub) : sub[k].kind = "diff"
  /\ Len(parsedPatches) = Len(sub)
  /\ \A k \in 1..Len(parsedPatches) : NoHunkApplies(parsedPatches[k])

\* C10 as stated: when the submission parses as a diff and no hunk of any of
\* its patches can be applied, every target is left as it was and the
\* result is mode = "none" with applied = []
C10_NothingAppliedIsNone ==
  (Done /\ C10Case) =>
    /\ fs = fs0
    /\ Returned /\ wresult.mode = "none" /\ wresult.applied = << >>

\* no section of the submission holds a hunk
NoHunkIn(ss) == \A k \in 1..Len(ss) : ss[k].kind \in {"diff", "hunks"} => ss[k].hunks = << >>

\* the submission holds a "---"/"+++" header pair that no hunk follows
C11Case ==
  /\ NoHunkIn(sub)
  /\ \E k \in 1..Len(sub) : sub[k].kind = "diff"

\* C11 as stated: write_patch writes a file on the diff path and returns mode
\* "diff" only for a submission that parses to a patch with a hunk; a header
\* pair that no hunk follows never makes it create or rewrite a file
C11_HeaderOnlyNeverWrites ==
  C11Case =>
    /\ WrittenBy(written, "diff") = << >>
    /\ Returned => wresult.mode # "diff"

\* the lines hunk h replaces, as a set of line numbers of the original file
OldRange(h) == h.oldStart..(h.oldStart + h.oldLines - 1)

\* two hunks in the order of their positions
InFileOrder(hunks) ==
  IF hunks[1].oldStart <= hunks[2].oldStart THEN hunks ELSE << hunks[2], hunks[1] >>

\* the submission is one diff for an existing file with two hunks that match
\* the file at the positions of their headers and replace different lines
C12Case ==
  /\ Len(sub) = 1 /\ sub[1].kind = "diff" /\ IsFile(fs0, sub[1].file)
  /\ Len(sub[1].hunks) = 2
  /\ OldRange(sub[1].hunks[1]) \cap OldRange(sub[1].hunks[2]) = {}
  /\ \A k \in 1..2 : HunkMatchesAt(FileLinesOf(fs0[sub[1].file].text), sub[1].hunks[k])

\* C12 as stated: for a patch with two hunks on different regions of a file,
\* write_patch leaves the file with both hunks applied at the positions their
\* headers give in the original file, whichever hunk is listed first
C12_TwoHunksEitherOrder ==
  (Done /\ C12Case) =>
    /\ Returned
    /\ fs[sub[1].file]
         = FileEntry(ExpectedText(fs0[sub[1].file].text, InFileOrder(sub[1].hunks)))

\* the text write_patch reads for the parsed patch p
ReadFor(p) == ReadFile(fs0, PatchFile(p)).text

\* C30: for every file content and parsed patch that applyPatch applies,
\* applyPatchManually returns the same text as applyPatch: only the '-'
\* lines go, the context lines stay in place, the '+' lines come in at the
\* same position
C30_ManualEqualsStandard ==
  \A k \in 1..Len(parsedPatches) :
    applyPatch(ReadFor(parsedPatches[k]), parsedPatches[k]).ok =>
      applyPatchManually(ReadFor(parsedPatches[k]), parsedPatches[k])
        = applyPatch(ReadFor(parsedPatches[k]), parsedPatches[k]).text

\* ------------------------------------------------------------------------
\* Claims on the diff synthesizer
\* ------------------------------------------------------------------------

\* the text that parsing diffText and applying its first patch to oldText
\* gives, as a one-element list; no element when either fails
Reapplied(oldText, diffText) ==
  IF parsePatch(diffText).ok /\ Len(parsePatch(diffText).list) > 0
       /\ applyPatch(oldText, parsePatch(diffText).list[1]).ok
  THEN << applyPatch(oldText, parsePatch(diffText).list[1]).text >>
  ELSE << >>

\* C1: a diff that generateUnifiedDiffForFile returns, parsed and applied to
\* oldText, gives exactly the edited text; and every pair planToUnifiedDiffs
\* returns, applied to the text read for its filePath, gives
\* applyEditsToText of that text and the change's edits
C1_DiffRoundTrip ==
  /\ \A k \in 1..Len(dwork) :
       dwork[k].pc = "ok" => Reapplied(dwork[k].oldText, dwork[k].diff) = << dwork[k].newText >>
  /\ dpc = "returned" =>
       /\ Len(dresult) = Len(plan)
       /\ \A k \in 1..Len(plan) :
            /\ dresult[k].filePath = plan[k].filePath
            /\ applyEditsToText(readFileFn(plan[k].filePath), plan[k].edits).ok
            /\ Reapplied(readFileFn(plan[k].filePath), dresult[k].diff)
                 = << applyEditsToText(readFileFn(plan[k].filePath), plan[k].edits).text >>

C1_Witness ==
  /\ dpc = "returned" /\ Len(plan) = 2 /\ plan[1].filePath # plan[2].filePath
  /\ \A k \in 1..2 : dwork[k].newText # dwork[k].oldText

\* the callback of change k cannot succeed: the read fails or an edit of the
\* change cannot be applied
MustFail(k) ==
  \/ ReadRejects(plan[k].filePath)
  \/ ~applyEditsToText(readFileFn(plan[k].filePath), plan[k].edits).ok

\* C15: when the read, the edits or the verification of the diff fails for
\* one file of the plan, planToUnifiedDiffs fails and returns no pair, not
\* even for the files of the plan that were processed with success
C15_AllOrNothing ==
  (\E k \in 1..Len(plan) : dwork[k].pc = "threw" \/ MustFail(k)) =>
    dpc # "returned" /\ dresult = << >>

\* the call failed on its second file after its first file got its diff
C15_Witness ==
  /\ dpc = "rejected" /\ Len(plan) = 2
  /\ dwork[1].pc = "ok" /\ dwork[1].diff # << >> /\ dwork[2].pc = "threw"

\* the first patch of diffText is written against a/filePath and b/filePath
DiffNames(diffText, filePath) ==
  /\ parsePatch(diffText).ok /\ Len(parsePatch(diffText).list) > 0
  /\ parsePatch(diffText).list[1].oldFileName = << "a/" >> \o filePath
  /\ parsePatch(diffText).list[1].newFileName = << "b/" >> \o filePath

\* C29: in whatever order the reads and the callbacks of the changes end,
\* the list planToUnifiedDiffs returns has one pair per change, in the order
\* of plan.changes: pair i carries the filePath of change i and the diff of
\* the callback of change i, made from the text read for that path and the
\* edits of change i
C29_ResultsInPlanOrder ==
  dpc = "returned" =>
    /\ Len(dresult) = Len(plan)
    /\ \A i \in 1..Len(plan) :
         /\ dresult[i] = [filePath |-> plan[i].filePath, diff |-> dwork[i].diff]
         /\ dwork[i].oldText = readFileFn(plan[i].filePath)
         /\ << dwork[i].newText >> = Reapplied(dwork[i].oldText, dresult[i].diff)
         /\ dwork[i].newText = applyEditsToText(dwork[i].oldText, plan[i].edits).text
         /\ DiffNames(dresult[i].diff, plan[i].filePath)

\* the callback of the second change ended first, and the two diffs differ
C29_Witness ==
  /\ dpc = "returned" /\ Len(plan) = 2 /\ dwork[2].done = 1
  /\ dresult[1].diff # dresult[2].diff

\* ------------------------------------------------------------------------
\* Claims on generate_patch
\* ------------------------------------------------------------------------

\* the header of hunk h agrees with its body
HeaderAgrees(h) ==
  /\ h.oldLines = Len(SelectSeq(h.body, IsOld))
  /\ h.newLines = Len(SelectSeq(h.body, IsNew))
  /\ h.newLines = h.oldLines - Len(SelectSeq(h.body, LAMBDA l : l.op = "-"))
                    + Len(SelectSeq(h.body, LAMBDA l : l.op = "+"))

\* C16 as stated: every hunk generate_patch compiles has a header that agrees
\* with its body: oldLineCount counts the context and "-" lines,
\* newLineCount the context and "+" lines, for every accepted line index
C16_HeadersAgree == \A k \in 1..Len(gpatches) : HeaderAgrees(gpatches[k].hunk)

\* the lines of the file an instruction names
LinesOfFile(instruction) == SplitLines(ReadFile(fs, instruction.file).text)

\* the number of newlines among the first o characters of text: the index
\* of the line that holds the character at 0-based offset o
LineOfOffset(text, o) == Cardinality({k \in 1..o : text[k] = NL})

\* the line ranges spanned by the matches of the block old in the lines
BlockSpans(lines, old) ==
  {[start |-> LineOfOffset(JoinLines(lines), i),
    end |-> LineOfOffset(JoinLines(lines), i + Len(old) - 1)] :
     i \in {j \in 0..Len(JoinLines(lines)) : MatchesAt(JoinLines(lines), old, j)}}

\* the lines equal to old within the indices line - 5 .. line + 5
WindowHits(lines, line, old) ==
  {[start |-> i, end |-> i] :
     i \in {j \in (line - 5)..(line + 5) : j >= 0 /\ j < Len(lines) /\ lines[j + 1] = old}}

\* the targets the three steps allow, in their order of priority
Targets(lines, line, old) ==
  IF line < Len(lines) /\ lines[line + 1] = old THEN {[start |-> line, end |-> line]}
  ELSE IF WindowHits(lines, line, old) # {} THEN WindowHits(lines, line, old)
  ELSE BlockSpans(lines, old)

\* the lines hunk h removes, as a range of 0-based line indexes
RemovedRange(h) ==
  [start |-> h.oldStart - 1
               + Cardinality({k \in 1..Len(h.body) :
                    \A j \in 1..k : h.body[j].op = " "}),
   end |-> h.oldStart - 1
             + Cardinality({k \in 1..Len(h.body) : \A j \in 1..k : h.body[j].op = " "})
             + Len(SelectSeq(h.body, LAMBDA l : l.op = "-")) - 1]

\* the call is made with one replace or delete on w, with an accepted line
\* and an oldContent that is not the whole file
C17Case ==
  /\ Len(instructions) = 1 /\ instructions[1].file = << "w" >>
  /\ instructions[1].operation \in {"replace", "delete"}
  /\ ~Falsy(instructions[1].oldContent)
  /\ validatePatchInstruction(instructions[1]) = << >>
  /\ LineOr0(instructions[1].line) <= Len(LinesOfFile(instructions[1]))
  /\ Trim(instructions[1].oldContent.text) # Trim(W)

\* C17 as stated: the target is the line at index line when it equals
\* oldContent, else a line equal to oldContent within line-5 .. line+5, else
\* the lines spanned by a block match of oldContent; the call fails with
\* "Could not find line matching", and without a patch, exactly when no step
\* finds a match
C17_TargetByPriority ==
  (gpc = "returned" /\ C17Case) =>
    IF Targets(LinesOfFile(instructions[1]), LineOr0(instructions[1].line),
               instructions[1].oldContent.text) = {}
    THEN /\ ~gresult.success /\ ~gresult.hasPatch /\ gpatches = << >>
         /\ gresult.error.detail = << "Could not find line matching" >>
    ELSE /\ Len(gpatches) = 1
         /\ RemovedRange(gpatches[1].hunk)
              \in Targets(LinesOfFile(instructions[1]), LineOr0(instructions[1].line),
                          instructions[1].oldContent.text)

\* the call is made with one insert, with content, on an existing file
C18Case ==
  /\ Len(instructions) = 1 /\ instructions[1].operation = "insert"
  /\ IsFile(fs, instructions[1].file) /\ ~Falsy(instructions[1].content)

\* the number of lines of the file: the pieces its text falls into at its
\* newlines
FileLineCount(instruction) == Len(LinesOfFile(instruction))

Accepted == gresult.success /\ gresult.hasPatch /\ Len(gpatches) = 1

RejectedWith(message) ==
  /\ ~gresult.success /\ ~gresult.hasPatch /\ gresult.patch = << >>
  /\ \E k \in 1..Len(gresult.error.detail) : gresult.error.detail[k] = message

\* C18 as stated: an insert whose line is negative or greater than the
\* number of lines of the file gives success = false with an "Invalid line
\* number" error and no patch; every line in 0 .. fileLineCount is accepted
C18_InsertBoundsAsStated ==
  (gpc = "returned" /\ C18Case) =>
    IF LineOr0(instructions[1].line) < 0
         \/ LineOr0(instructions[1].line) > FileLineCount(instructions[1])
    THEN RejectedWith("Invalid line number")
    ELSE Accepted

\* C18: the same, where a negative line is refused by the validation with
\* "Line number must be non-negative", and fileLineCount counts the pieces
\* between the newlines of the file
C18_InsertBounds ==
  (gpc = "returned" /\ C18Case) =>
    IF LineOr0(instructions[1].line) < 0
    THEN RejectedWith("Line number must be non-negative")
    ELSE IF LineOr0(instructions[1].line) > FileLineCount(instructions[1])
    THEN RejectedWith("Invalid line number")
    ELSE Accepted

\* an insert at line = fileLineCount was accepted
C18_Witness ==
  /\ gpc = "returned" /\ C18Case /\ Accepted
  /\ instructions[1].line.has /\ instructions[1].line.n = FileLineCount(instructions[1])

\* instruction k does not pass the validation, or it does not compile
FailsAt(k) ==
  \/ validatePatchInstruction(instructions[k]) # << >>
  \/ ~generateSinglePatch(fs, instructions[k]).ok

Invalid(k) == validatePatchInstruction(instructions[k]) # << >>

\* the instruction whose failure ends the call: the first invalid one, or
\* else the first that does not compile
Culprit ==
  IF \E k \in 1..Len(instructions) : Invalid(k)
  THEN CHOOSE k \in 1..Len(instructions) : Invalid(k) /\ \A j \in 1..(k - 1) : ~Invalid(j)
  ELSE CHOOSE k \in 1..Len(instructions) : FailsAt(k) /\ \A j \in 1..(k - 1) : ~FailsAt(j)

\* C19: when the validation or the compilation of an instruction of the
\* batch fails, generate_patch returns success = false, an error that names
\* the file of that instruction, and no patch text, whatever compiled before
C19_FailureAbortsBatch ==
  (gpc = "returned" /\ \E k \in 1..Len(instructions) : FailsAt(k)) =>
    /\ ~gresult.success /\ ~gresult.hasPatch /\ gresult.patch = << >>
    /\ gresult.error.prefix \in {"Invalid instruction for", "Failed to generate patch for"}
    /\ gresult.error.file = instructions[Culprit].file

\* the second instruction failed to compile after the first had compiled
C19_Witness ==
  /\ gpc = "returned" /\ Len(instructions) = 2 /\ Len(gpatches) = 1
  /\ gresult.error.prefix = "Failed to generate patch for"
  /\ gresult.error.file = instructions[2].file

\* the instruction lacks a field its operation requires, names no file, has
\* an unknown operation or a negative line
IllFormed(i) ==
  \/ i.operation \in {"add", "insert", "replace"} /\ ~i.content.has
  \/ i.operation = "delete" /\ ~i.oldContent.has
  \/ i.file = << >>
  \/ i.operation \notin {"add", "insert", "replace", "delete"}
  \/ i.line.has /\ i.line.n < 0

\* C20: when an instruction of the batch is ill-formed, generate_patch reads
\* no file and compiles no instruction, and returns success = false with
\* applied = [] and no patch
C20_ValidatedFirst ==
  (\E k \in 1..Len(instructions) : IllFormed(instructions[k])) =>
    /\ greads = << >> /\ gpatches = << >> /\ gapplied = << >>
    /\ gpc = "returned" =>
         /\ ~gresult.success /\ ~gresult.hasPatch /\ gresult.patch = << >>
         /\ gresult.applied = << >>
         /\ gresult.error.prefix = "Invalid instruction for"

\* a batch was refused for its second instruction, which lacks its content,
\* after a first one that compiles
C20_Witness ==
  /\ gpc = "returned" /\ Len(instructions) = 2
  /\ ~IllFormed(instructions[1]) /\ generateSinglePatch(fs, instructions[1]).ok
  /\ instructions[2].operation = "replace" /\ ~instructions[2].content.has

\* ------------------------------------------------------------------------
\* Claims on generate_patch: the files it needs and the files it leaves
\* ------------------------------------------------------------------------

\* instruction k of the batch was handed to generateSinglePatch
Compiled(k) == k <= Len(greads)

\* the call ended on instruction k with the error detail, and no patch
FailedOn(k, detail) ==
  /\ gpc = "returned" /\ k = Len(greads)
  /\ ~gresult.success /\ ~gresult.hasPatch /\ gresult.patch = << >>
  /\ gresult.error = [prefix |-> "Failed to generate patch for",
                      file |-> instructions[k].file, detail |-> << detail >>]

\* the patch p creates file with exactly the lines of content
CreatesWhole(p, file, content) ==
  /\ p.oldName = << "/dev/null" >> /\ p.newName = << "b/" >> \o file
  /\ p.hunk.oldStart = 0 /\ p.hunk.oldLines = 0 /\ p.hunk.newStart = 1
  /\ p.hunk.newLines = Len(p.hunk.body)
  /\ \A j \in 1..Len(p.hunk.body) : p.hunk.body[j].op = "+"
  /\ JoinLines([j \in 1..Len(p.hunk.body) |-> p.hunk.body[j].text]) = content

\* C21: an add for a file that exists fails with 'already exists', an
\* insert, replace or delete for a file that does not exist fails with
\* 'does not exist', both without a patch; an add for a file that does not
\* exist compiles to one hunk against /dev/null whose added lines are the
\* whole content
C21_ExistencePrecondition ==
  \A k \in 1..Len(instructions) : Compiled(k) =>
    /\ (instructions[k].operation = "add" /\ IsFile(fs0, instructions[k].file))
         => FailedOn(k, "already exists")
    /\ (instructions[k].operation \in {"insert", "replace", "delete"}
        /\ ~IsFile(fs0, instructions[k].file))
         => FailedOn(k, "does not exist")
    /\ (instructions[k].operation = "add" /\ ~IsFile(fs0, instructions[k].file)
        /\ (gpc = "returned" \/ gi > k))
         => /\ Len(gpatches) >= k
            /\ CreatesWhole(gpatches[k], instructions[k].file, instructions[k].content.text)

\* the add of the missing file g compiled, and the add of the existing file
\* w that follows it ended the call
C21_Witness ==
  /\ gpc = "returned" /\ Len(instructions) = 2 /\ Len(greads) = 2
  /\ instructions[1].operation = "add" /\ ~IsFile(fs0, instructions[1].file)
  /\ Len(gpatches) = 1
  /\ instructions[2].operation = "add" /\ IsFile(fs0, instructions[2].file)

\* a call of one of the functions that only compute: applyEditsToText,
\* planToUnifiedDiffs (which runs generateUnifiedDiffForFile for every
\* change) or generate_patch
InitTools == InitEdits \/ InitDiff \/ InitGen

NextTools == NextEdits \/ NextDiff \/ NextGen

SpecTools == InitTools /\ [][NextTools]_vars

\* C22: applyEditsToText, generateUnifiedDiffForFile, planToUnifiedDiffs and
\* generate_patch create, change and delete no file or directory, whether
\* they return or throw: at every point of a call the files are the files
\* the call started with, and nothing was written
C22_ToolsLeaveFiles == fs = fs0 /\ written = << >>

\* generate_patch returned the patch that adds g, and g still does not exist
C22_Witness ==
  /\ gpc = "returned" /\ gresult.success /\ Len(instructions) = 1
  /\ instructions[1].operation = "add" /\ ~IsFile(fs, instructions[1].file)

\* ------------------------------------------------------------------------
\* Claims on runCodingAgent
\* ------------------------------------------------------------------------

\* the response ends the run: the model call failed, or the decision of
\* the step is final_answer
Ends(r) == r = ModelThrows \/ DecisionOf(r).action = "final_answer"

\* the result of a run that has returned
ReturnedAsStated ==
  IF \E k \in 1..Len(responses) : Ends(responses[k])
  THEN /\ Ends(responses[Len(responses)])
       /\ \A k \in 1..(Len(responses) - 1) : ~Ends(responses[k])
       /\ aresult.steps = Len(responses)
       /\ aresult.message # "Max steps reached without finalization."
  ELSE /\ Len(responses) = maxSteps
       /\ aresult = AgentResult(maxSteps, "Max steps reached without finalization.")

CallsOf(tool) == {k \in 1..Len(calls) : calls[k][2] = tool}

CapMessages == {"write_patch:ERROR: write cap exceeded", "run_cmd:ERROR: command cap exceeded"}

\* this step received a new decision for action
Decided(action) ==
  /\ Len(responses') = Len(responses) + 1
  /\ DecisionOf(responses'[Len(responses')]).action = action
  /\ responses'[Len(responses')] # ModelThrows

\* the step refused the request with the message and did nothing else
RefusedWith(message) ==
  /\ transcript' = Append(transcript, message)
  /\ calls' = calls /\ writes' = writes /\ cmds' = cmds
  /\ fs' = fs /\ written' = written

FilesWritten == {written[k][1] : k \in 1..Len(written)}

\* C25: over a whole run the number of files write_patch has written to
\* disk never exceeds maxWrites
C25_FileWritesBounded == Cardinality(FilesWritten) <= maxWrites

\* C26: once a write_patch or run_cmd request has been refused for its cap,
\* no further decision is requested from the model
C26_CapStopsRun ==
  [][(\E k \in 1..Len(transcript) : transcript[k] \in CapMessages)
       => responses' = responses]_vars

\* C27: when the content of a step does not parse as JSON, the step runs no
\* tool, writes no file, runs no command, adds nothing to the transcript,
\* and the run returns with steps = that step
C27_ParseErrorEndsRun ==
  [][(Len(responses') = Len(responses) + 1 /\ responses'[Len(responses')] = Unparsable)
       => /\ apc' = "returned" /\ aresult'.steps = step
          /\ calls' = calls /\ transcript' = transcript
          /\ fs' = fs /\ written' = written /\ writes' = writes /\ cmds' = cmds]_vars

\* the second step got a content that does not parse, after a tool step
C27_Witness ==
  /\ apc = "returned" /\ Len(responses) = 2 /\ responses[2] = Unparsable
  /\ aresult.steps = 2 /\ \E k \in 1..Len(calls) : calls[k][1] = 1

\* the content parsed and names an action that is no tool of the agent
UnknownAction(r) ==
  /\ r.outcome = "content" /\ r.json /\ r.action # ""
  /\ r.action \notin validActions

\* C28: a parsed decision with an unknown action adds an 'ERROR: Unknown
\* action' message to the transcript and the run goes on with the next step;
\* it does not end the run as a final answer
C28_UnknownActionContinues ==
  [][(Len(responses') = Len(responses) + 1 /\ UnknownAction(responses'[Len(responses')]))
       => /\ transcript' = Append(transcript, "ERROR: Unknown action")
          /\ apc' = "ask" /\ step' = step + 1]_vars

\* ------------------------------------------------------------------------
\* Claims on the order of an edit list
\* ------------------------------------------------------------------------

\* the orders of 1..n
Orders(n) ==
  {p \in [1..n -> 1..n] : \A i, j \in 1..n : i # j => p[i] # p[j]}

\* the list es in the order p
Reordered(es, p) == [i \in 1..Len(es) |-> es[p[i]]]

\* C31: applyEditsToText does not depend on the order of the edit list: every
\* permutation of an accepted list is accepted and yields the returned text,
\* also when two edits resolve to the same start offset
C31_OrderIndependent ==
  (epc = "returned") =>
    \A p \in Orders(Len(edits)) :
      /\ applyEditsToText(original, Reordered(edits, p)).ok
      /\ applyEditsToText(original, Reordered(edits, p)).text = result

\* ------------------------------------------------------------------------
\* Claims on the patches generate_patch returns
\* ------------------------------------------------------------------------

\* the call was made with one insert, replace or delete and returned a patch
C32Case ==
  /\ gpc = "returned" /\ gresult.success /\ gresult.hasPatch
  /\ Len(instructions) = 1 /\ Len(gpatches) = 1
  /\ instructions[1].operation \in {"insert", "replace", "delete"}

\* the lines split from the content of an instruction; none for a delete
NewLinesOf(instruction) ==
  IF instruction.operation = "delete" THEN << >>
  ELSE SplitLines(TextOr(instruction.content))

\* the ranges of 0-based line indexes a replace or delete asks to act on:
\* the whole file for a whole-file replace, the line at index line without
\* an oldContent, else the lines a match of oldContent spans
InstructedRanges(lines, instruction) ==
  IF instruction.operation = "replace"
       /\ \/ (LineOr0(instruction.line) = 0 /\ Falsy(instruction.oldContent))
          \/ (~Falsy(instruction.oldContent)
                /\ Trim(instruction.oldContent.text) = Trim(JoinLines(lines)))
  THEN {[start |-> 0, end |-> Len(lines) - 1]}
  ELSE IF Falsy(instruction.oldContent)
  THEN {[start |-> LineOr0(instruction.line), end |-> LineOr0(instruction.line)]}
  ELSE Targets(lines, LineOr0(instruction.line), instruction.oldContent.text)

\* the files an instruction asks for: the lines with the new lines inserted
\* before index line, or put in place of an instructed range
InstructedLines(lines, instruction) ==
  IF instruction.operation = "insert"
  THEN {SubSeq(lines, 1, LineOr0(instruction.line)) \o NewLinesOf(instruction)
          \o SubSeq(lines, LineOr0(instruction.line) + 1, Len(lines))}
  ELSE {SubSeq(lines, 1, t.start) \o NewLinesOf(instruction)
          \o SubSeq(lines, t.end + 2, Len(lines)) :
          t \in InstructedRanges(lines, instruction)}

\* C32: a patch generate_patch returns for one insert, replace or delete
\* applies cleanly to the file it was generated from: the context and "-"
\* lines of its hunk are the file's lines at the position of the header, and
\* applying it gives the file with exactly the instructed lines inserted,
\* replaced or removed, every other line unchanged
C32_PatchAppliesCleanly ==
  C32Case =>
    /\ HunkMatchesAt(LinesOfFile(instructions[1]), gpatches[1].hunk)
    /\ parsePatch(gresult.patch).ok
    /\ Len(parsePatch(gresult.patch).list) = 1
    /\ applyPatch(ReadFile(fs, instructions[1].file).text,
                  parsePatch(gresult.patch).list[1]).ok
    /\ applyPatch(ReadFile(fs, instructions[1].file).text,
                  parsePatch(gresult.patch).list[1]).text
         \in {JoinLines(ls) : ls \in InstructedLines(LinesOfFile(instructions[1]), instructions[1])}

\* the lines hunk h marks as removed, joined by newlines
RemovedText(h) == JoinLines(TextsOf(SelectSeq(h.body, LAMBDA l : l.op = "-")))

\* the call was made with one replace or delete whose target is located
\* through its oldContent, and it compiled a patch
C33Case ==
  /\ gpc = "returned" /\ Len(instructions) = 1 /\ Len(gpatches) = 1
  /\ instructions[1].operation \in {"replace", "delete"}
  /\ ~Falsy(instructions[1].oldContent)
  /\ ~(/\ instructions[1].operation = "replace"
       /\ Trim(instructions[1].oldContent.text) = Trim(JoinLines(LinesOfFile(instructions[1]))))

\* C33: when the target of a replace or delete is located through oldContent
\* (exact line, window search or block search), the lines marked as removed,
\* joined by newlines, are exactly oldContent: no text outside oldContent is
\* removed
C33_RemovedIsOldContent ==
  C33Case => RemovedText(gpatches[1].hunk) = instructions[1].oldContent.text

\* ------------------------------------------------------------------------
\* Claims on manual hunk splicing
\* ------------------------------------------------------------------------

\* the lines in result when the loop of applyPatchManually reaches hunk k
LinesBefore(originalContent, hunks, k) ==
  ManualHunks(SplitLines(originalContent), SubSeq(hunks, 1, k - 1))

\* the 0-based start of hunk k is negative or not smaller than the current
\* line count
OutOfBounds(originalContent, hunks, k) ==
  /\ ~hunks[k].nan
  /\ \/ hunks[k].oldStart - 1 < 0
     \/ hunks[k].oldStart - 1 >= Len(LinesBefore(originalContent, hunks, k))

\* the parsed patch p without its hunk k
WithoutHunk(p, k) ==
  [p EXCEPT !.hunks = SubSeq(p.hunks, 1, k - 1) \o SubSeq(p.hunks, k + 1, Len(p.hunks))]

\* C34: in manual hunk splicing a hunk whose 0-based start is negative or not
\* smaller than the current line count changes nothing, and the patch gives
\* the text it gives without that hunk: every other hunk is applied as if
\* the skipped hunk were absent
C34_OutOfBoundsHunkSkipped ==
  \A j \in 1..Len(parsedPatches) : \A k \in 1..Len(parsedPatches[j].hunks) :
    OutOfBounds(ReadFor(parsedPatches[j]), parsedPatches[j].hunks, k) =>
      /\ ManualHunk(LinesBefore(ReadFor(parsedPatches[j]), parsedPatches[j].hunks, k),
                    parsedPatches[j].hunks[k])
           = LinesBefore(ReadFor(parsedPatches[j]), parsedPatches[j].hunks, k)
      /\ applyPatchManually(ReadFor(parsedPatches[j]), parsedPatches[j])
           = applyPatchManually(ReadFor(parsedPatches[j]), WithoutHunk(parsedPatches[j], k))

\* write_patch wrote f by manual splicing of a patch of two hunks: the first
\* is out of bounds and was skipped, the second removed a line
C34_Witness ==
  /\ wpc = "returned" /\ wresult.mode = "diff"
  /\ Len(parsedPatches) = 1 /\ Len(parsedPatches[1].hunks) = 2
  /\ PatchFile(parsedPatches[1]) = << "f" >>
  /\ ~applyPatch(F1, parsedPatches[1]).ok
  /\ OutOfBounds(F1, parsedPatches[1].hunks, 1)
  /\ ~OutOfBounds(F1, parsedPatches[1].hunks, 2)
  /\ ReadFile(fs, << "f" >>).text = << "L2", NL, "L3", NL >>

\* ------------------------------------------------------------------------
\* Claims on the unescaping of a submission
\* ------------------------------------------------------------------------

\* the character the escape sequence backslash-c denotes
Denoted(c) ==
  CASE c = "n" -> NL [] c = "t" -> TAB [] c = QUOTE -> QUOTE [] OTHER -> BS

RECURSIVE DecodedOnce(_)
\* text read from left to right, each escape sequence decoded once as a unit
DecodedOnce(text) ==
  IF text = << >> THEN << >>
  ELSE IF Len(text) >= 2 /\ text[1] = BS /\ text[2] \in {"n", "t", QUOTE, BS}
  THEN << Denoted(text[2]) >> \o DecodedOnce(SubSeq(text, 3, Len(text)))
  ELSE << text[1] >> \o DecodedOnce(Tail(text))

\* C35: before parsing, write_patch replaces each escape sequence of the
\* patch text (backslash-n, backslash-t, backslash-quote, backslash-
\* backslash) by the character it denotes, each sequence decoded once as a
\* unit: an escaped backslash followed by n gives a backslash and an n
C35_EscapesDecodedOnce ==
  (wpc \notin {"idle", "start"}) => unescapedPatch = DecodedOnce(patch)

\* ------------------------------------------------------------------------
\* Claims on the tolerant diff parser
\* ------------------------------------------------------------------------

\* write_patch has parsed its text with the hand parser of parseDiffPatch:
\* parsePatch threw
TolerantParsed ==
  wpc \notin {"idle", "start"} /\ ~parsePatch(unescapedPatch).ok

\* a line without its spaces
Unspaced(line) == SelectSeq(line, LAMBDA t : t # " ")

HeaderOf(o, n) ==
  [oldStart |-> o.start, oldLines |-> o.count, newStart |-> n.start, newLines |-> n.count]

\* the hunk header a line states, with any spacing and with or without its
\* counts (a missing count is 0), as a one-element list; no element for
\* another line
StatedHeader(line) ==
  LET u == Unspaced(line)
      o == HeaderRange(u, 2, "-", TRUE)
      n == HeaderRange(u, o.next, "+", TRUE)
  IN  IF Len(u) >= 1 /\ u[1] = "@@" /\ o.ok /\ n.ok /\ Len(u) = n.next /\ u[n.next] = "@@"
      THEN << HeaderOf(o, n) >>
      ELSE << >>

RECURSIVE StatedHeaders(_, _, _)
\* the hunk headers stated by the lines from i on; inFile tells that a
\* "--- a/" line stands before them
StatedHeaders(ls, i, inFile) ==
  IF i > Len(ls) THEN << >>
  ELSE (IF inFile THEN StatedHeader(ls[i]) ELSE << >>)
         \o StatedHeaders(ls, i + 1, inFile \/ StartsOldA(ls[i]))

\* the headers of the hunks of the patches, in their order
HunkHeaders(patches) ==
  Flatten([j \in 1..Len(patches) |->
             [k \in 1..Len(patches[j].hunks) |->
                [oldStart |-> patches[j].hunks[k].oldStart,
                 oldLines |-> patches[j].hunks[k].oldLines,
                 newStart |-> patches[j].hunks[k].newStart,
                 newLines |-> patches[j].hunks[k].newLines]]])

\* C36: the tolerant parser recognises a hunk header also when its counts
\* are left out or its spacing is not the canonical one ("@@ -3 +3 @@",
\* "@@-3,2 +3,3@@"): each such header under a file header starts a hunk with
\* the given start lines, a missing count taken as 0
C36_LooseHeadersRecognised ==
  TolerantParsed =>
    HunkHeaders(parsedPatches) = StatedHeaders(SplitLines(unescapedPatch), 1, FALSE)

\* the indexes of the lines the hand parser reads as hunk headers: a header
\* of the canonical spacing after a "--- a/" line
RECURSIVE RecognisedFrom(_, _, _)
RecognisedFrom(ls, i, inFile) ==
  IF i > Len(ls) THEN {}
  ELSE (IF inFile /\ StartsWith(ls[i], "@@") /\ MatchHeader(ls[i], TRUE).ok THEN {i} ELSE {})
         \cup RecognisedFrom(ls, i + 1, inFile \/ StartsOldA(ls[i]))

\* the index of the line that holds the header of hunk k of patch j
HeaderLineOf(ls, patches, j, k) ==
  NthOf(RecognisedFrom(ls, 1, FALSE),
        Len(HunkHeaders(SubSeq(patches, 1, j - 1))) + k)

\* the line ends the body of a hunk: a hunk header, recognised or not, or a
\* file header
EndsBody(line) == StartsWith(line, "@@") \/ IsFileHeader(line)

RECURSIVE BodyAfter(_, _)
\* the "+", "-" and context lines from line i up to the next header
BodyAfter(ls, i) ==
  IF i > Len(ls) \/ EndsBody(ls[i]) THEN << >>
  ELSE (IF FirstChar(ls[i]) \in {"+", "-", " "} THEN << ls[i] >> ELSE << >>)
         \o BodyAfter(ls, i + 1)

\* the name without its "a/" or "b/"
Unprefixed(name) == IF name # << >> /\ name[1] \in {"a/", "b/"} THEN Tail(name) ELSE name

\* the file named by the most recent "+++" header before line i
FileNamedBefore(ls, i) ==
  IF \E a \in 1..(i - 1) : StartsWith(ls[a], "+++ ")
  THEN Unprefixed(Tail(ls[CHOOSE a \in 1..(i - 1) :
                            /\ StartsWith(ls[a], "+++ ")
                            /\ \A b \in (a + 1)..(i - 1) : ~StartsWith(ls[b], "+++ ")]))
  ELSE << >>

\* C37: in the tolerant parser every hunk holds exactly the body lines that
\* follow its own header up to the next "@@" or file header, and it belongs
\* to the patch of the file named by the most recent header pair: lines after
\* an unrecognised "@@" header or a new file header ("/dev/null" included)
\* are never added to a hunk of an earlier file and never rename an earlier
\* patch
C37_LinesStayInTheirHunk ==
  TolerantParsed =>
    \A j \in 1..Len(parsedPatches) : \A k \in 1..Len(parsedPatches[j].hunks) :
      /\ parsedPatches[j].hunks[k].lines
           = BodyAfter(SplitLines(unescapedPatch),
                       HeaderLineOf(SplitLines(unescapedPatch), parsedPatches, j, k) + 1)
      /\ PatchFile(parsedPatches[j])
           = FileNamedBefore(SplitLines(unescapedPatch),
                             HeaderLineOf(SplitLines(unescapedPatch), parsedPatches, j, k))

\* ------------------------------------------------------------------------
\* C38
\* ------------------------------------------------------------------------

\* makeAICall has returned or thrown
CallEnded == cpc \in {"returned", "thrown"}

\* the attempts made so far, but for the last one, have failed; a success
\* is the last attempt and is what makeAICall returns
StopsAtSuccess ==
  \A i \in 1..Len(tries) :
    tries[i].ok => /\ i = Len(tries) /\ cpc = "returned"
                   /\ cresult = CallResult("response", i, "")

\* one wait after each failed attempt but the last, of min(1000 * 2^(i-1),
\* 10000) milliseconds after attempt i, and attempt i + 1 only after it
BacksOff ==
  /\ Len(waits) <= Len(tries) /\ Len(tries) <= Len(waits) + 1
  /\ CallEnded /\ tries # << >> => Len(waits) = Len(tries) - 1
  /\ \A i \in 1..Len(waits) :
       /\ i < maxRetries /\ ~tries[i].ok
       /\ waits[i] = (IF 1000 * 2^(i - 1) < 10000 THEN 1000 * 2^(i - 1) ELSE 10000)

\* the call ends with the response of a successful attempt, or after the
\* failure of attempt maxRetries with its error or, for a failure with no
\* object generated, the repaired response
EndsWithResponseOrError ==
  CallEnded =>
    /\ Len(tries) \in 1..maxRetries
    /\ cresult # NoCallResult
    /\ \/ cpc = "returned" /\ tries[Len(tries)].ok
          /\ cresult = CallResult("response", Len(tries), "")
       \/ cpc = "returned" /\ Len(tries) = maxRetries /\ tries[maxRetries].isNoObject
          /\ cresult = CallResult("repaired", maxRetries, "")
       \/ cpc = "thrown" /\ Len(tries) = maxRetries /\ ~tries[maxRetries].ok
          /\ cresult = CallResult("error", maxRetries, tries[maxRetries].error)

\* C38 as stated: makeAICall performs between 1 and maxRetries attempts,
\* returns at the first success and attempts nothing after it, waits
\* min(1000 * 2^(i-1), 10000) ms after a failed attempt i < maxRetries, and
\* after the failure of the last attempt throws its error or returns the
\* repaired response
C38_AsStated == StopsAtSuccess /\ BacksOff /\ EndsWithResponseOrError

\* C38, amended: the statement holds of a call with a provider and
\* maxRetries >= 1; a call without a provider throws "No AI provider
\* detected" and a call with maxRetries < 1 throws "All retry attempts
\* failed", both without an attempt
C38_RetriesWithBackoff ==
  /\ StopsAtSuccess /\ BacksOff
  /\ IF provider = ""
     THEN /\ tries = << >>
          /\ CallEnded => cpc = "thrown"
                          /\ cresult = CallResult("error", 0, "No AI provider detected")
     ELSE IF maxRetries < 1
     THEN /\ tries = << >>
          /\ CallEnded => cpc = "thrown"
                          /\ cresult = CallResult("error", 0, "All retry attempts failed")
     ELSE EndsWithResponseOrError

\* the error of the sixth attempt is thrown after waits of 1, 2, 4, 8 and
\* 10 seconds
C38_Witness ==
  /\ cpc = "thrown" /\ maxRetries = 6 /\ Len(tries) = 6
  /\ waits = << 1000, 2000, 4000, 8000, 10000 >>
  /\ cresult = CallResult("error", 6, "API call timeout")

====
